---------------------------- MODULE Spec2Model ----------------------------
(***************************************************************************)
(* A model of src/src/App.jsx: the four persisted slices of the dashboard  *)
(* (radar, goal, logs, crisis), the useLocalStorage hook that loads and    *)
(* saves them, the handlers of the App shell and of the Cockpit page, the  *)
(* fog classification of the Radar page and the scoring of the Mission     *)
(* page.                                                                   *)
(*                                                                         *)
(* A JavaScript string is the sequence of its UTF-16 code units, so that   *)
(* length, trim and JSON escaping are computed as JavaScript computes      *)
(* them.  A JavaScript value is a record tagged with its type, so that a   *)
(* slice can be whatever JSON.parse returns: the hook checks no shape.     *)
(* A number is a double of IEEE 754 (a sign, an odd mantissa below 2^53    *)
(* and a binary exponent, or NaN or an infinity): every operation rounds   *)
(* its exact result to the nearest double, a numeric text is read to the   *)
(* nearest double and a number is written with the fewest digits that read *)
(* back as it, as the language does.  Mantissas are written in digits of   *)
(* 14 bits, the low digit first, since the integers of the checker end     *)
(* below 2^31.                                                             *)
(***************************************************************************)
EXTENDS Integers, Sequences, FiniteSets, TLC

(***************************************************************************)
(* Text.  A string is written as its code units: <<102, 111, 103>> is      *)
(* 'fog'.  The words of the language that the conversions write and read:  *)
(***************************************************************************)
\* 'null'
NullWord == <<110, 117, 108, 108>>

\* 'true'
TrueWord == <<116, 114, 117, 101>>

\* 'false'
FalseWord == <<102, 97, 108, 115, 101>>

\* 'undefined'
UndefinedWord == <<117, 110, 100, 101, 102, 105, 110, 101, 100>>

\* 'NaN'
NaNWord == <<78, 97, 78>>

\* 'Infinity'
InfinityWord == <<73, 110, 102, 105, 110, 105, 116, 121>>

\* '[object Object]'
ObjectWord ==
  <<91, 111, 98, 106, 101, 99, 116, 32, 79, 98, 106, 101, 99, 116, 93>>

\* 'toString'
ToStringName == <<116, 111, 83, 116, 114, 105, 110, 103>>

\* WhiteSpace and LineTerminator of ECMAScript, what trim removes: TAB, LF,
\* VT, FF, CR, SP, NBSP, U+1680, U+2000..U+200A, LS, PS, U+202F, U+205F,
\* U+3000, U+FEFF.
Whitespace ==
  {9, 10, 11, 12, 13, 32, 160, 5760, 8232, 8233, 8239, 8287, 12288, 65279}
    \cup (8192..8202)

Digit == 48..57

DigitChar(d) == 48 + d

DigitVal(c) == c - 48

\* The decimal digits of a non-negative integer.
RECURSIVE DigitsOf(_)
DigitsOf(n) ==
  IF n < 10 THEN <<DigitChar(n)>>
  ELSE DigitsOf(n \div 10) \o <<DigitChar(n % 10)>>

\* String.prototype.trim: whitespace removed at both ends.
RECURSIVE TrimStart(_)
TrimStart(s) ==
  IF s # <<>> /\ Head(s) \in Whitespace THEN TrimStart(Tail(s)) ELSE s

RECURSIVE TrimEnd(_)
TrimEnd(s) ==
  IF s # <<>> /\ s[Len(s)] \in Whitespace
  THEN TrimEnd(SubSeq(s, 1, Len(s) - 1))
  ELSE s

trim(s) == TrimEnd(TrimStart(s))

\* String.prototype.toLowerCase and toUpperCase, on Basic Latin and
\* Latin-1 (the short day names of the fr-FR locale are Basic Latin); the
\* code units above U+00FF are left as they are.
LowerOf(c) ==
  IF (65 <= c /\ c <= 90) \/ (192 <= c /\ c <= 222 /\ c # 215)
  THEN <<c + 32>>
  ELSE <<c>>

\* U+00DF gives SS, U+00B5 gives U+039C, U+00FF gives U+0178.
UpperOf(c) ==
  IF (97 <= c /\ c <= 122) \/ (224 <= c /\ c <= 254 /\ c # 247)
  THEN <<c - 32>>
  ELSE IF c = 223 THEN <<83, 83>>
  ELSE IF c = 181 THEN <<924>>
  ELSE IF c = 255 THEN <<376>>
  ELSE <<c>>

RECURSIVE toLowerCase(_)
toLowerCase(s) ==
  IF s = <<>> THEN <<>> ELSE LowerOf(Head(s)) \o toLowerCase(Tail(s))

RECURSIVE toUpperCase(_)
toUpperCase(s) ==
  IF s = <<>> THEN <<>> ELSE UpperOf(Head(s)) \o toUpperCase(Tail(s))

\* s.replace('.', ''): the first '.' only.
RECURSIVE RemoveFirstDot(_)
RemoveFirstDot(s) ==
  IF s = <<>> THEN <<>>
  ELSE IF Head(s) = 46 THEN Tail(s)
  ELSE <<Head(s)>> \o RemoveFirstDot(Tail(s))

\* s.charAt(0) and s.slice(1).
charAt0(s) == IF s = <<>> THEN <<>> ELSE <<Head(s)>>

slice1(s) == IF s = <<>> THEN <<>> ELSE Tail(s)

\* A high surrogate followed by a low one at position i: one code point.
IsPair(s, i) ==
  /\ i + 1 <= Len(s)
  /\ 55296 <= s[i] /\ s[i] <= 56319
  /\ 56320 <= s[i + 1] /\ s[i + 1] <= 57343

\* The value of the n digits of s from position i on.
RECURSIVE DigitsValue(_, _, _)
DigitsValue(s, i, n) ==
  IF n = 0 THEN 0
  ELSE DigitsValue(s, i, n - 1) * 10 + DigitVal(s[i + n - 1])

(***************************************************************************)
(* Natural numbers of any size, for the mantissas of the numbers and the   *)
(* conversions between decimal and binary: the sequence of the digits in   *)
(* base 2^14, the least significant first, without leading zeros (zero is  *)
(* the empty sequence).                                                    *)
(***************************************************************************)
Min(a, b) == IF a < b THEN a ELSE b

Max(a, b) == IF a < b THEN b ELSE a

Abs(n) == IF n < 0 THEN -n ELSE n

Limb(a, i) == IF i <= Len(a) THEN a[i] ELSE 0

\* a without its zero digits at the high end.
Top(a) ==
  IF \A i \in 1..Len(a) : a[i] = 0 THEN 0
  ELSE CHOOSE i \in 1..Len(a) : a[i] # 0 /\ \A j \in (i + 1)..Len(a) : a[j] = 0

Trimmed(a) ==
  IF a = <<>> \/ a[Len(a)] # 0 THEN SubSeq(a, 1, Len(a)) ELSE SubSeq(a, 1, Top(a))

\* The natural number n, and the value of a number below 2^31.
RECURSIVE FromInt(_)
FromInt(n) == IF n = 0 THEN <<>> ELSE <<n % 16384>> \o FromInt(n \div 16384)

RECURSIVE ToInt(_)
ToInt(a) == IF a = <<>> THEN 0 ELSE Head(a) + 16384 * ToInt(Tail(a))

\* The digits lo..hi of a * k + sign * b + carry and the carry out of
\* them, [s, c]: the low half first, its carry into the high half.
RECURSIVE Carried(_, _, _, _, _, _, _)
RECURSIVE CarriedOn(_, _, _, _, _, _, _)
JoinedTo(s, high) == [s |-> s \o high.s, c |-> high.c]

Carried(a, k, b, sign, lo, hi, carry) ==
  IF lo = hi
  THEN [s |-> <<(Limb(a, lo) * k + sign * Limb(b, lo) + carry) % 16384>>,
        c |-> (Limb(a, lo) * k + sign * Limb(b, lo) + carry) \div 16384]
  ELSE CarriedOn(a, k, b, sign, (lo + hi) \div 2 + 1, hi,
                 Carried(a, k, b, sign, lo, (lo + hi) \div 2, carry))

CarriedOn(a, k, b, sign, lo, hi, low) ==
  JoinedTo(low.s, Carried(a, k, b, sign, lo, hi, low.c))

WithCarry(r) == r.s \o FromInt(r.c)

BigAdd(a, b) ==
  IF a = <<>> THEN b
  ELSE IF b = <<>> THEN a
  ELSE WithCarry(Carried(a, 1, b, 1, 1, Max(Len(a), Len(b)), 0))

\* a - b, for a >= b.
BigSub(a, b) ==
  IF b = <<>> THEN a ELSE Trimmed(Carried(a, 1, b, -1, 1, Len(a), 0).s)

\* -1, 0 or 1 as a is below, equal to or above b: by the highest digit
\* that differs.
CompareAt(a, b, i) == IF a[i] < b[i] THEN -1 ELSE 1

BigCompare(a, b) ==
  IF Len(a) < Len(b) THEN -1
  ELSE IF Len(a) > Len(b) THEN 1
  ELSE IF a = b THEN 0
  ELSE CompareAt(a, b, CHOOSE i \in 1..Len(a) :
                         a[i] # b[i] /\ \A j \in (i + 1)..Len(a) : a[j] = b[j])

\* a * k, for 0 <= k < 2^16.
TimesSmall(a, k) ==
  IF a = <<>> \/ k = 0 THEN <<>>
  ELSE IF k = 1 THEN a
  ELSE WithCarry(Carried(a, k, <<>>, 1, 1, Len(a), 0))

\* a * 2^(14 n)
ShiftLimbs(a, n) == IF a = <<>> THEN <<>> ELSE [i \in 1..n |-> 0] \o a

RECURSIVE MulFrom(_, _, _)
MulFrom(a, b, i) ==
  IF i > Len(b) THEN <<>>
  ELSE BigAdd(TimesSmall(a, b[i]), ShiftLimbs(MulFrom(a, b, i + 1), 1))

BigMul(a, b) == IF Len(a) < Len(b) THEN MulFrom(b, a, 1) ELSE MulFrom(a, b, 1)

\* a * 2^n: each digit takes the low bits of the digit n \div 14 places
\* below it and the high bits of the one before that.
ShiftedUp(a, k, r) ==
  [i \in 1..(Len(a) + k + 1) |->
     IF i <= k THEN 0
     ELSE ((Limb(a, i - k) * (2 ^ r)) % 16384)
            + (IF i - k > 1 THEN a[i - k - 1] \div (2 ^ (14 - r)) ELSE 0)]

BigShiftLeft(a, n) ==
  IF a = <<>> \/ n = 0 THEN a ELSE Trimmed(ShiftedUp(a, n \div 14, n % 14))

\* The digits lo..hi of the quotient of a by d, 0 < d < 2^14, the most
\* significant first, and the rest, [q, r]: the high half first, its rest
\* into the low half.
RECURSIVE DivRange(_, _, _, _, _)
RECURSIVE DivLow(_, _, _, _, _)
Below(q, low) == [q |-> q \o low.q, r |-> low.r]

DivRange(a, d, lo, hi, rem) ==
  IF lo = hi
  THEN [q |-> <<(rem * 16384 + a[lo]) \div d>>, r |-> (rem * 16384 + a[lo]) % d]
  ELSE DivLow(a, d, lo, (lo + hi) \div 2,
              DivRange(a, d, (lo + hi) \div 2 + 1, hi, rem))

DivLow(a, d, lo, hi, high) == Below(high.q, DivRange(a, d, lo, hi, high.r))

Reversed(s) == [i \in 1..Len(s) |-> s[Len(s) + 1 - i]]

\* x over d: the quotient and whether a rest is left.
Short(d) == [q |-> Trimmed(Reversed(d.q)), rest |-> d.r # 0]

ShortDivide(x, d) ==
  IF x = <<>> THEN [q |-> <<>>, rest |-> FALSE]
  ELSE Short(DivRange(x, d, 1, Len(x), 0))

\* floor(a / 2^n)
ShiftedDown(a, k, r) ==
  [i \in 1..(Len(a) - k) |->
     (a[i + k] \div (2 ^ r)) + ((Limb(a, i + k + 1) % (2 ^ r)) * (2 ^ (14 - r)))]

BigShiftRight(a, n) ==
  IF n = 0 THEN a
  ELSE IF n \div 14 >= Len(a) THEN <<>>
  ELSE Trimmed(ShiftedDown(a, n \div 14, n % 14))

\* The number of bits of a natural number.
RECURSIVE BitsOf(_)
BitsOf(x) == IF x = 0 THEN 0 ELSE 1 + BitsOf(x \div 2)

BigBitLen(a) == IF a = <<>> THEN 0 ELSE 14 * (Len(a) - 1) + BitsOf(a[Len(a)])

\* Bit n of a (bit 0 the least significant), and whether the n bits below
\* bit n are all 0.
BigBit(a, n) == (Limb(a, n \div 14 + 1) \div (2 ^ (n % 14))) % 2

LowBitsZero(a, n) ==
  /\ \A i \in 1..Min(n \div 14, Len(a)) : a[i] = 0
  /\ Limb(a, n \div 14 + 1) % (2 ^ (n % 14)) = 0

\* The number of zero bits at the low end of a, a not zero.
RECURSIVE ZerosOf(_)
ZerosOf(x) == IF x % 2 = 1 THEN 0 ELSE 1 + ZerosOf(x \div 2)

ZerosAt(a, i) == 14 * (i - 1) + ZerosOf(a[i])

TrailingZeros(a) ==
  ZerosAt(a, CHOOSE i \in 1..Len(a) : a[i] # 0 /\ \A j \in 1..(i - 1) : a[j] = 0)

\* The largest digit q of lo..hi with b * q <= r.
RECURSIVE DigitBetween(_, _, _, _)
DigitBetween(r, b, lo, hi) ==
  IF lo = hi THEN lo
  ELSE IF BigCompare(TimesSmall(b, (lo + hi + 1) \div 2), r) <= 0
  THEN DigitBetween(r, b, (lo + hi + 1) \div 2, hi)
  ELSE DigitBetween(r, b, lo, (lo + hi + 1) \div 2 - 1)

\* floor(r * 2^(14 n) / b) for r < b, digit by digit, and whether a rest
\* is left.
RECURSIVE LongDivide(_, _, _, _)
RECURSIVE DivideStep(_, _, _, _, _)
LongDivide(r, b, n, q) ==
  IF n = 0 THEN [q |-> Trimmed(q), rest |-> r # <<>>]
  ELSE DivideStep(ShiftLimbs(r, 1), b, n, q,
                  DigitBetween(ShiftLimbs(r, 1), b, 0, 16383))

DivideStep(r, b, n, q, d) ==
  LongDivide(BigSub(r, TimesSmall(b, d)), b, n - 1, <<d>> \o q)

(***************************************************************************)
(* Numbers: the doubles of IEEE 754.  A finite number is (-1)^neg * m *    *)
(* 2^e with m odd, below 2^53, and e >= -1074 (the two zeros: m = 0, e = 0 *)
(* and either sign); every operation computes the exact result and rounds  *)
(* it to the nearest double, ties to even, as the language does.           *)
(***************************************************************************)
NaN == [t |-> "number", k |-> "nan"]

Infinity == [t |-> "number", k |-> "inf"]

NegInfinity == [t |-> "number", k |-> "ninf"]

Finite(neg, m, e) == [t |-> "number", k |-> "fin", neg |-> neg, m |-> m, e |-> e]

Zero == Finite(FALSE, <<>>, 0)

SignedZero(neg) == Finite(neg, <<>>, 0)

Signed(neg) == IF neg THEN NegInfinity ELSE Infinity

\* m * 2^e with the zero bits at the low end of m moved into e.
OddPart(neg, m, e, zeros) == Finite(neg, BigShiftRight(m, zeros), e + zeros)

\* The double that is exactly m * 2^e (m below 2^53 after its low zeros),
\* an infinity from 2^1024 on.
Exactly(neg, m, e) ==
  IF m = <<>> THEN SignedZero(neg)
  ELSE IF BigBitLen(m) + e > 1024 THEN Signed(neg)
  ELSE OddPart(neg, m, e, TrailingZeros(m))

\* q * 2^e rounded up or not: half is the first bit dropped, more whether
\* anything lies below it.
RoundedUp(neg, q, e, half, more) ==
  Exactly(neg, IF half /\ (more \/ BigBit(q, 0) = 1) THEN BigAdd(q, <<1>>) ELSE q, e)

RoundedAt(neg, m, e, rest, shift) ==
  RoundedUp(neg, BigShiftRight(m, shift), e + shift, BigBit(m, shift - 1) = 1,
            rest \/ ~LowBitsZero(m, shift - 1))

\* The number of low bits that m * 2^e has too many: it keeps 53 bits, and
\* none below 2^-1074.
Excess(m, e) == Max(BigBitLen(m) - 53, -1074 - e)

\* The double nearest to (m + rest) * 2^e, rest a fraction below 1 that is
\* not 0 when rest is true (m then has 55 bits or more).
Round(neg, m, e, rest) ==
  IF Excess(m, e) <= 0 THEN Exactly(neg, m, e)
  ELSE RoundedAt(neg, m, e, rest, Excess(m, e))

\* The integer n.
RInt(n) == Exactly(n < 0, FromInt(Abs(n)), 0)

\* The integer a number holds (below 2^31), and whether it holds one.
IntOf(a) == (IF a.neg THEN -1 ELSE 1) * ToInt(BigShiftLeft(a.m, a.e))

IsInt(a) == a.k = "fin" /\ a.e >= 0 /\ BigBitLen(a.m) + a.e <= 30

RNeg(a) ==
  CASE a.k = "nan" -> NaN
    [] a.k = "inf" -> NegInfinity
    [] a.k = "ninf" -> Infinity
    [] a.k = "fin" -> [a EXCEPT !.neg = ~a.neg]

\* The difference of two mantissas written for the same exponent e, with
\* the sign of the larger; of two equal ones the zero without a sign.
SignedDifference(a, b, x, y, e, order) ==
  IF order = 0 THEN Zero
  ELSE IF order > 0 THEN Round(a.neg, BigSub(x, y), e, FALSE)
  ELSE Round(b.neg, BigSub(y, x), e, FALSE)

\* The sum of two finite numbers whose mantissas x and y are written for
\* the same exponent e.
SumAt(a, b, x, y, e) ==
  IF a.neg = b.neg THEN Round(a.neg, BigAdd(x, y), e, FALSE)
  ELSE SignedDifference(a, b, x, y, e, BigCompare(x, y))

SumFrom(a, b, e) ==
  SumAt(a, b, BigShiftLeft(a.m, a.e - e), BigShiftLeft(b.m, b.e - e), e)

\* a + b
RAdd(a, b) ==
  IF a.k = "nan" \/ b.k = "nan" THEN NaN
  ELSE IF a.k = "fin" /\ b.k = "fin"
       THEN IF a.m = <<>> THEN (IF b.m = <<>> THEN SignedZero(a.neg /\ b.neg) ELSE b)
            ELSE IF b.m = <<>> THEN a
            ELSE SumFrom(a, b, Min(a.e, b.e))
  ELSE IF a.k = "fin" THEN b
  ELSE IF b.k = "fin" THEN a
  ELSE IF a.k = b.k THEN a
  ELSE NaN

\* a - b
RSub(a, b) == RAdd(a, RNeg(b))

\* Whether a is negative, of a number that is not NaN.
Negative(a) == a.k = "ninf" \/ (a.k = "fin" /\ a.neg)

IsZero(a) == a.k = "fin" /\ a.m = <<>>

\* a * b
RMul(a, b) ==
  IF a.k = "nan" \/ b.k = "nan" THEN NaN
  ELSE IF a.k = "fin" /\ b.k = "fin"
       THEN Round(a.neg # b.neg, BigMul(a.m, b.m), a.e + b.e, FALSE)
  ELSE IF IsZero(a) \/ IsZero(b) THEN NaN
  ELSE Signed(Negative(a) # Negative(b))

QuotientOf(neg, d, e) == Round(neg, d.q, e, d.rest)

\* The quotient of two finite numbers, b not zero, with 56 bits or more: a
\* divisor of one digit divides the dividend with 70 bits added, a longer
\* one, first made larger than the dividend by up bits, gives 8 digits.
QuotientAt(a, b, up) ==
  IF Len(b.m) = 1
  THEN QuotientOf(a.neg # b.neg, ShortDivide(BigShiftLeft(a.m, 70), b.m[1]),
                  a.e - b.e - 70)
  ELSE QuotientOf(a.neg # b.neg, LongDivide(a.m, BigShiftLeft(b.m, up), 8, <<>>),
                  a.e - b.e + up - 112)

\* a / b
RDiv(a, b) ==
  IF a.k = "nan" \/ b.k = "nan" THEN NaN
  ELSE IF a.k = "fin" /\ b.k = "fin"
       THEN IF b.m = <<>>
            THEN IF a.m = <<>> THEN NaN ELSE Signed(a.neg # b.neg)
            ELSE IF a.m = <<>> THEN SignedZero(a.neg # b.neg)
            ELSE QuotientAt(a, b, Max(BigBitLen(a.m) - BigBitLen(b.m), 0) + 1)
  ELSE IF a.k # "fin" /\ b.k # "fin" THEN NaN
  ELSE IF b.k # "fin" THEN SignedZero(Negative(a) # Negative(b))
  ELSE Signed(Negative(a) # Negative(b))

\* a < b for two finite numbers of the same sign that are not zero: by
\* the place of the highest bit, then by the mantissas.
BelowInSize(a, b) ==
  IF BigBitLen(a.m) + a.e # BigBitLen(b.m) + b.e
  THEN BigBitLen(a.m) + a.e < BigBitLen(b.m) + b.e
  ELSE BigCompare(BigShiftLeft(a.m, a.e - Min(a.e, b.e)),
                  BigShiftLeft(b.m, b.e - Min(a.e, b.e))) < 0

\* a < b (false when either is NaN)
RLess(a, b) ==
  IF a.k = "nan" \/ b.k = "nan" THEN FALSE
  ELSE IF a.k = "ninf" THEN b.k # "ninf"
  ELSE IF a.k = "inf" THEN FALSE
  ELSE IF b.k = "ninf" THEN FALSE
  ELSE IF b.k = "inf" THEN TRUE
  ELSE IF a.m = <<>> THEN b.m # <<>> /\ ~b.neg
  ELSE IF b.m = <<>> THEN a.neg
  ELSE IF a.neg # b.neg THEN a.neg
  ELSE IF a.neg THEN BelowInSize(b, a)
  ELSE BelowInSize(a, b)

RGreater(a, b) == RLess(b, a)

RLessEq(a, b) == a.k # "nan" /\ b.k # "nan" /\ ~RLess(b, a)

\* Math.min of two numbers: the zero with a sign is below the other.
MathMin(a, b) ==
  IF a.k = "nan" \/ b.k = "nan" THEN NaN
  ELSE IF IsZero(a) /\ IsZero(b) THEN SignedZero(a.neg \/ b.neg)
  ELSE IF RLess(b, a) THEN b ELSE a

(***************************************************************************)
(* Decimal to double: the number written with the digits of the natural    *)
(* number d and the decimal exponent x, rounded once.                      *)
(***************************************************************************)
\* a * 5^n, by halves of n down to 5^6.
RECURSIVE TimesFives(_, _)
TimesFives(a, n) ==
  IF a = <<>> THEN <<>>
  ELSE IF n <= 6 THEN TimesSmall(a, 5 ^ n)
  ELSE TimesFives(TimesFives(a, n \div 2), n - n \div 2)

\* floor(a / 5^n), and whether a rest was left.
RECURSIVE OverFives(_, _, _)
RECURSIVE OverRest(_, _)
Fived(d, rest) == [q |-> d.q, rest |-> rest \/ d.rest]

OverFives(a, n, rest) ==
  IF n <= 6 THEN Fived(ShortDivide(a, 5 ^ n), rest)
  ELSE OverRest(OverFives(a, n \div 2, rest), n - n \div 2)

OverRest(d, n) == IF d.q = <<>> THEN d ELSE OverFives(d.q, n, d.rest)

\* d * 10^x = d * 5^x * 2^x; for x < 0 the quotient of d, with 60 - 3x
\* bits added, by 5^-x.  Beyond these exponents every number is an
\* infinity, or zero.
Decimal(neg, d, x) ==
  IF d = <<>> THEN SignedZero(neg)
  ELSE IF x >= 0
       THEN IF x > 310 THEN Signed(neg)
            ELSE Round(neg, TimesFives(d, x), x, FALSE)
  ELSE IF BigBitLen(d) \div 3 + 1 + x < -330 THEN SignedZero(neg)
  ELSE QuotientOf(neg, OverFives(BigShiftLeft(d, 60 - 3 * x), -x, FALSE), 4 * x - 60)

\* The natural number written with the decimal digits (code units) of s
\* from place lo to place hi: up to 4 digits at once, more by halves.
RECURSIVE DigitsFrom(_, _, _)
DigitsFrom(s, lo, hi) ==
  IF hi < lo THEN <<>>
  ELSE IF hi - lo < 4 THEN FromInt(DigitsValue(s, lo, hi - lo + 1))
  ELSE BigAdd(BigShiftLeft(TimesFives(DigitsFrom(s, lo, (lo + hi) \div 2),
                                      hi - (lo + hi) \div 2),
                           hi - (lo + hi) \div 2),
              DigitsFrom(s, (lo + hi) \div 2 + 1, hi))
(***************************************************************************)
(* JavaScript values: undefined, null, booleans, numbers, strings, arrays  *)
(* and plain objects (the values JSON.parse returns and the code builds).  *)
(* An object is the sequence of its own properties in the order            *)
(* JavaScript enumerates them: array indices ascending, then the other     *)
(* names in the order they were created.  Throw stands for a TypeError.    *)
(***************************************************************************)
Undefined == [t |-> "undefined"]

Null == [t |-> "null"]

Bool(b) == [t |-> "boolean", v |-> b]

Str(s) == [t |-> "string", v |-> s]

Arr(items) == [t |-> "array", v |-> items]

Obj(members) == [t |-> "object", v |-> members]

Throw == [t |-> "throw"]

\* The number of digits of s from position i on.
RECURSIVE ScanDigits(_, _)
ScanDigits(s, i) ==
  IF i <= Len(s) /\ s[i] \in Digit THEN 1 + ScanDigits(s, i + 1) ELSE 0

\* An array index as a property name: canonical digits, at most 2^32 - 2.
IsArrayIndex(key) ==
  /\ key # <<>>
  /\ \A i \in 1..Len(key) : key[i] \in Digit
  /\ Len(key) > 1 => key[1] # 48
  /\ Len(key) <= 10
  /\ Len(key) = 10 =>
       \/ DigitsValue(key, 1, 9) < 429496729
       \/ DigitsValue(key, 1, 9) = 429496729 /\ DigitVal(key[10]) <= 4

\* Array indices in ascending order: a before b.
IndexBefore(a, b) ==
  \/ Len(a) < Len(b)
  \/ /\ Len(a) = Len(b)
     /\ \E i \in 1..Len(a) :
          /\ a[i] < b[i]
          /\ \A j \in 1..(i - 1) : a[j] = b[j]

HasProperty(members, key) == \E i \in 1..Len(members) : members[i].k = key

\* obj[key] = val on a plain object: the value replaced in place, or the
\* property created (an array index among the indices, another name last).
PutProperty(members, key, val) ==
  IF HasProperty(members, key)
  THEN [i \in 1..Len(members) |->
          IF members[i].k = key THEN [k |-> key, v |-> val] ELSE members[i]]
  ELSE IF IsArrayIndex(key)
  THEN LET before ==
             Cardinality({i \in 1..Len(members) :
                            /\ IsArrayIndex(members[i].k)
                            /\ IndexBefore(members[i].k, key)})
       IN  SubSeq(members, 1, before) \o <<[k |-> key, v |-> val]>>
             \o SubSeq(members, before + 1, Len(members))
  ELSE Append(members, [k |-> key, v |-> val])

\* The object built from a list of properties created in that order.
RECURSIVE ObjectFrom(_, _)
ObjectFrom(list, acc) ==
  IF list = <<>> THEN Obj(acc)
  ELSE ObjectFrom(Tail(list), PutProperty(acc, Head(list).k, Head(list).v))

\* 'length'
Length == <<108, 101, 110, 103, 116, 104>>

\* value[key]: an own property, the length and the elements of an array or
\* a string (key the canonical digits of an index below the length),
\* undefined otherwise (of the inherited properties the program reads
\* none); a TypeError on undefined and null.
Get(value, key) ==
  CASE value.t \in {"undefined", "null", "throw"} -> Throw
    [] value.t = "object" ->
         IF HasProperty(value.v, key)
         THEN value.v[CHOOSE i \in 1..Len(value.v) : value.v[i].k = key].v
         ELSE Undefined
    [] value.t \in {"array", "string"} ->
         IF key = Length THEN RInt(Len(value.v))
         ELSE IF \E i \in 1..Len(value.v) : key = DigitsOf(i - 1)
              THEN IF value.t = "array"
                   THEN value.v[CHOOSE i \in 1..Len(value.v) : key = DigitsOf(i - 1)]
                   ELSE Str(<<value.v[CHOOSE i \in 1..Len(value.v) : key = DigitsOf(i - 1)]>>)
              ELSE Undefined
    [] OTHER -> Undefined

Zeros(n) == [i \in 1..n |-> 48]

(***************************************************************************)
(* Number::toString.  The digits are the fewest that read back as the      *)
(* same double, and of those the nearest to it: with v = r/s, and mp/s     *)
(* and mm/s half the distance to the double above and below, a digit is    *)
(* the last one as soon as what follows lies within those distances (the   *)
(* bounds included when the mantissa is even, as they then round to v);    *)
(* of two last digits as near, the even one is taken.                      *)
(***************************************************************************)
Reaches(x, s, even) ==
  IF even THEN BigCompare(x, s) >= 0 ELSE BigCompare(x, s) > 0

\* The quotient of r by s (a digit) and the rest.
RECURSIVE DigitOf(_, _, _)
DigitOf(r, s, d) ==
  IF BigCompare(r, s) < 0 THEN [d |-> d, r |-> r]
  ELSE DigitOf(BigSub(r, s), s, d + 1)

RECURSIVE Generate(_, _, _, _, _, _)
RECURSIVE NextDigit(_, _, _, _, _, _)
RECURSIVE LastDigit(_, _, _, _, _, _, _, _)
Generate(r, s, mp, mm, even, digits) ==
  NextDigit(DigitOf(TimesSmall(r, 10), s, 0), s, TimesSmall(mp, 10),
            TimesSmall(mm, 10), even, digits)

NextDigit(q, s, mp, mm, even, digits) ==
  LastDigit(q, s, mp, mm, even, digits,
            IF even THEN BigCompare(q.r, mm) <= 0 ELSE BigCompare(q.r, mm) < 0,
            Reaches(BigAdd(q.r, mp), s, even))

LastDigit(q, s, mp, mm, even, digits, low, high) ==
  IF ~low /\ ~high
  THEN Generate(q.r, s, mp, mm, even, Append(digits, DigitChar(q.d)))
  ELSE IF low /\ (~high \/ BigCompare(TimesSmall(q.r, 2), s) < 0
                         \/ (TimesSmall(q.r, 2) = s /\ q.d % 2 = 0))
  THEN Append(digits, DigitChar(q.d))
  ELSE Append(digits, DigitChar(q.d + 1))

\* The digits of r/s and the place n of the point: v = 0.digits * 10^n.
RECURSIVE ScaleTo(_, _, _, _, _, _)
ScaleTo(r, s, mp, mm, n, even) ==
  IF Reaches(BigAdd(r, mp), s, even)
  THEN ScaleTo(r, TimesSmall(s, 10), mp, mm, n + 1, even)
  ELSE IF ~Reaches(TimesSmall(BigAdd(r, mp), 10), s, even)
  THEN ScaleTo(TimesSmall(r, 10), s, TimesSmall(mp, 10), TimesSmall(mm, 10),
               n - 1, even)
  ELSE [digits |-> Generate(r, s, mp, mm, even, <<>>), point |-> n]

\* The exponent of the last bit of the double m * 2^e, and of half the
\* distance to the double below it (a quarter of the last bit when the
\* double is a power of two above the subnormals).
UnitExponent(m, e) == Max(e + BigBitLen(m) - 53, -1074)

LowerExponent(m, unit) == IF m = <<1>> /\ unit > -1074 THEN unit - 2 ELSE unit - 1

\* v = r/s is first brought near 1 with the power of ten n that the
\* place of its highest bit gives (log 2 = 0.30103).
ShortestAt(m, e, unit, low, w, n) ==
  ScaleTo(TimesFives(BigShiftLeft(m, e + w + Max(-n, 0)), Max(-n, 0)),
          TimesFives(BigShiftLeft(<<1>>, w + Max(n, 0)), Max(n, 0)),
          TimesFives(BigShiftLeft(<<1>>, unit - 1 + w + Max(-n, 0)), Max(-n, 0)),
          TimesFives(BigShiftLeft(<<1>>, low + w + Max(-n, 0)), Max(-n, 0)),
          n, e > unit)

ShortestFrom(m, e, unit, low) ==
  ShortestAt(m, e, unit, low, Max(0, -low),
             ((BigBitLen(m) + e - 1) * 30103) \div 100000)

Shortest(m, e) ==
  ShortestFrom(m, e, UnitExponent(m, e), LowerExponent(m, UnitExponent(m, e)))

\* The digits with the point at place n: zeros appended up to 21 digits,
\* the point inside, '0.' and zeros down to 1e-6, an exponent otherwise.
PlacePoint(digits, n) ==
  IF Len(digits) <= n /\ n <= 21 THEN digits \o Zeros(n - Len(digits))
  ELSE IF 0 < n /\ n <= 21
  THEN SubSeq(digits, 1, n) \o <<46>> \o SubSeq(digits, n + 1, Len(digits))
  ELSE IF -6 < n /\ n <= 0 THEN <<48, 46>> \o Zeros(-n) \o digits
  ELSE <<Head(digits)>> \o (IF Len(digits) > 1 THEN <<46>> \o Tail(digits) ELSE <<>>)
         \o <<101, IF n < 1 THEN 45 ELSE 43>> \o DigitsOf(Abs(n - 1))

Placed(d) == PlacePoint(d.digits, d.point)

NumberToString(n) ==
  CASE n.k = "nan" -> NaNWord
    [] n.k = "inf" -> InfinityWord
    [] n.k = "ninf" -> <<45>> \o InfinityWord
    [] n.k = "fin" ->
         (IF n.neg /\ n.m # <<>> THEN <<45>> ELSE <<>>)
           \o (IF IsInt(n) THEN DigitsOf(Abs(IntOf(n)))
               ELSE Placed(Shortest(n.m, n.e)))

\* ToString: of an array its elements joined with commas (undefined and
\* null give nothing), of a plain object '[object Object]'.
RECURSIVE StringOf(_)
RECURSIVE Join(_, _)
StringOf(value) ==
  CASE value.t = "undefined" -> UndefinedWord
    [] value.t = "null" -> NullWord
    [] value.t = "boolean" -> IF value.v THEN TrueWord ELSE FalseWord
    [] value.t = "number" -> NumberToString(value)
    [] value.t = "string" -> value.v
    [] value.t = "array" -> Join(value.v, 1)
    [] value.t = "object" -> ObjectWord

Join(items, i) ==
  IF i > Len(items) THEN <<>>
  ELSE (IF items[i].t \in {"undefined", "null"} THEN <<>> ELSE StringOf(items[i]))
       \o (IF i < Len(items) THEN <<44>> ELSE <<>>)
       \o Join(items, i + 1)

\* Whether ToPrimitive gives a primitive: it throws a TypeError on an
\* object whose own toString is a property read from JSON (nothing
\* callable), and on an array that holds one.
RECURSIVE Converts(_)
Converts(value) ==
  CASE value.t = "throw" -> FALSE
    [] value.t = "object" -> ~HasProperty(value.v, ToStringName)
    [] value.t = "array" -> \A i \in 1..Len(value.v) : Converts(value.v[i])
    [] OTHER -> TRUE

\* ToPrimitive: arrays and objects become their strings.
ToPrimitive(value) ==
  IF ~Converts(value) THEN Throw
  ELSE IF value.t \in {"array", "object"} THEN Str(StringOf(value))
  ELSE value

HexVal(c) ==
  IF c \in Digit THEN c - 48
  ELSE IF 97 <= c /\ c <= 102 THEN c - 87
  ELSE IF 65 <= c /\ c <= 70 THEN c - 55
  ELSE 16

\* The natural number the digits of s from place lo to place hi write in
\* the base 2^bits, by halves, and whether the digits of s from place i on
\* all are digits of the base.
RECURSIVE RadixValue(_, _, _, _)
RadixValue(s, lo, hi, bits) ==
  IF hi < lo THEN <<>>
  ELSE IF lo = hi THEN FromInt(HexVal(s[lo]))
  ELSE BigAdd(BigShiftLeft(RadixValue(s, lo, (lo + hi) \div 2, bits),
                           bits * (hi - (lo + hi) \div 2)),
              RadixValue(s, (lo + hi) \div 2 + 1, hi, bits))

RadixDigits(s, i, base) == \A j \in i..Len(s) : HexVal(s[j]) < base

BitsOfRadix(base) == IF base = 16 THEN 4 ELSE IF base = 8 THEN 3 ELSE 1

\* The base a prefix 0x, 0o or 0b announces; 0 for none.
RadixOf(c) ==
  IF c \in {120, 88} THEN 16
  ELSE IF c \in {111, 79} THEN 8
  ELSE IF c \in {98, 66} THEN 2
  ELSE 0

\* The natural number v, or most when v is above it.
AtMost(v, most) ==
  IF BigCompare(v, FromInt(most)) > 0 THEN most ELSE ToInt(v)

\* The value of the n digits of s from position i on, of any length.  The
\* digits before the exponent are fewer than Len(s), so that the number is
\* below 10^Len(s) times, and not below 10^-Len(s) times, the power of ten
\* of the exponent: an exponent above 2 * Len(s) + 400 writes the same
\* number as 2 * Len(s) + 400 (an infinity, or zero), which is the value
\* given for it.
ExponentValue(s, i, n) ==
  AtMost(DigitsFrom(s, i, i + n - 1), 2 * Len(s) + 400)

\* The n digits of an exponent of s from position from on, negative when
\* the sign at from - 1 is '-': [ok, exp, pos].  An 'e' without digits is
\* an error.
ExponentDigits(s, from, n) ==
  IF n = 0 THEN [ok |-> FALSE, exp |-> 0, pos |-> from]
  ELSE [ok |-> TRUE,
        exp |-> IF s[from - 1] = 45 THEN -ExponentValue(s, from, n)
                ELSE ExponentValue(s, from, n),
        pos |-> from + n]

ExponentFrom(s, from) == ExponentDigits(s, from, ScanDigits(s, from))

\* An exponent part at position i of s; no 'e' is the exponent 0.
ReadExponent(s, i) ==
  IF i <= Len(s) /\ s[i] \in {101, 69}
  THEN ExponentFrom(s, IF i + 1 <= Len(s) /\ s[i + 1] \in {43, 45}
                       THEN i + 2 ELSE i + 1)
  ELSE [ok |-> TRUE, exp |-> 0, pos |-> i]

\* The natural number the digits int.frac of s at position i write when
\* the point is left out, whole and decimals being their counts.
DecimalValue(s, i, whole, decimals) ==
  BigAdd(BigShiftLeft(TimesFives(DigitsFrom(s, i, i + whole - 1), decimals),
                      decimals),
         DigitsFrom(s, i + whole + 1, i + whole + decimals))

\* The digits m with decimals of them after the point, times the exponent
\* e read, which has to end the text.
Exponent(m, decimals, e, end) ==
  IF ~e.ok \/ e.pos # end THEN NaN ELSE Decimal(FALSE, m, e.exp - decimals)

\* A decimal literal with whole digits, decimals digits after the point
\* and an exponent part from position after on.
Mantissa(text, whole, decimals, after) ==
  IF whole + decimals = 0 THEN NaN
  ELSE Exponent(DecimalValue(text, 1, whole, decimals), decimals,
                ReadExponent(text, after), Len(text) + 1)

Fraction(text, whole, decimals) ==
  Mantissa(text, whole, decimals, whole + 2 + decimals)

DecimalLiteral(text, whole) ==
  IF whole < Len(text) /\ text[whole + 1] = 46
  THEN Fraction(text, whole, ScanDigits(text, whole + 2))
  ELSE Mantissa(text, whole, 0, whole + 1)

\* Infinity or an unsigned decimal literal.
UnsignedLiteral(text) ==
  IF text = InfinityWord THEN Infinity
  ELSE DecimalLiteral(text, ScanDigits(text, 1))

WithSign(negative, m) == IF negative THEN RNeg(m) ELSE m

\* StringNumericLiteral: empty is 0; 0x, 0o and 0b literals; a signed
\* decimal literal with optional point and exponent; Infinity; NaN for
\* anything else.
NumericLiteral(text) ==
  IF text = <<>> THEN RInt(0)
  ELSE IF Len(text) > 2 /\ text[1] = 48 /\ RadixOf(text[2]) # 0
  THEN IF RadixDigits(text, 3, RadixOf(text[2]))
       THEN Round(FALSE, RadixValue(text, 3, Len(text), BitsOfRadix(RadixOf(text[2]))),
                  0, FALSE)
       ELSE NaN
  ELSE WithSign(text[1] = 45,
                UnsignedLiteral(IF text[1] \in {43, 45} THEN Tail(text) ELSE text))

\* StringToNumber: the literal of the text trimmed.
StringToNumber(s) == NumericLiteral(trim(s))

\* ToNumber of a primitive.
NumberOf(p) ==
  CASE p.t = "throw" -> Throw
    [] p.t = "undefined" -> NaN
    [] p.t = "null" -> RInt(0)
    [] p.t = "boolean" -> IF p.v THEN RInt(1) ELSE RInt(0)
    [] p.t = "number" -> p
    [] p.t = "string" -> StringToNumber(p.v)

\* ToNumber
ToNumber(value) == NumberOf(ToPrimitive(value))

\* ToBoolean: undefined, null, false, 0, NaN and '' are falsy.
Truthy(value) ==
  CASE value.t \in {"undefined", "null"} -> FALSE
    [] value.t = "boolean" -> value.v
    [] value.t = "number" -> ~(value.k = "nan" \/ IsZero(value))
    [] value.t = "string" -> value.v # <<>>
    [] OTHER -> TRUE

\* Strings in the order of their code units: a before b.
StringBefore(a, b) ==
  \E i \in 1..(Len(a) + 1) :
    /\ i <= Len(b)
    /\ \A j \in 1..(i - 1) : a[j] = b[j]
    /\ (i = Len(a) + 1 \/ a[i] < b[i])

\* The two operands of an operator, each made a primitive, made a string,
\* made a number.
Primitives(a, b) == [i \in 1..2 |-> ToPrimitive(<<a, b>>[i])]

Strings(p) == [i \in 1..2 |-> StringOf(p[i])]

Numbers(p) == [i \in 1..2 |-> NumberOf(p[i])]

Threw(p) == p[1].t = "throw" \/ p[2].t = "throw"

BothStrings(p) == p[1].t = "string" /\ p[2].t = "string"

Concat(s) == Str(s[1] \o s[2])

Sum(n) == IF Threw(n) THEN Throw ELSE RAdd(n[1], n[2])

Difference(n) == IF Threw(n) THEN Throw ELSE RSub(n[1], n[2])

Product(n) == IF Threw(n) THEN Throw ELSE RMul(n[1], n[2])

Quotient(n) == IF Threw(n) THEN Throw ELSE RDiv(n[1], n[2])

Less(n) == RLess(n[1], n[2])

LessOrEqual(n) == RLessEq(n[1], n[2])

\* The operator + on two primitives: concatenation when either is a
\* string.
PlusOf(p) ==
  IF Threw(p) THEN Throw
  ELSE IF p[1].t = "string" \/ p[2].t = "string" THEN Concat(Strings(p))
  ELSE Sum(Numbers(p))

\* a + b, a - b, a * b, a / b: a TypeError when an operand does not
\* convert.
Plus(a, b) == PlusOf(Primitives(a, b))

Minus(a, b) == Difference(Numbers(Primitives(a, b)))

Times(a, b) == Product(Numbers(Primitives(a, b)))

Over(a, b) == Quotient(Numbers(Primitives(a, b)))

\* The operator < on two primitives: two strings by code units, anything
\* else as numbers.
Before(p) ==
  IF BothStrings(p) THEN StringBefore(p[1].v, p[2].v) ELSE Less(Numbers(p))

NotAfter(p) ==
  IF BothStrings(p) THEN ~StringBefore(p[2].v, p[1].v) ELSE LessOrEqual(Numbers(p))

\* a < b, a > b, a <= b, of values that convert.
LessThan(a, b) == Before(Primitives(a, b))

GreaterThan(a, b) == LessThan(b, a)

LessEqual(a, b) == NotAfter(Primitives(a, b))

\* a === b against a primitive b: the same type and the same value; NaN
\* equals nothing, the two zeros equal each other.
StrictEquals(a, b) ==
  /\ a.t = b.t
  /\ a.t \in {"undefined", "null", "boolean", "number", "string"}
  /\ ~(a.t = "number" /\ a.k = "nan")
  /\ (a = b \/ (a.t = "number" /\ IsZero(a) /\ IsZero(b)))
(***************************************************************************)
(* JSON.stringify.  A string is quoted with the quote, the backslash, the  *)
(* control characters and the lone surrogates escaped; a number is its     *)
(* string, null when not finite; undefined is left out of an object and    *)
(* written null in an array.                                               *)
(***************************************************************************)
HexDigit(d) == IF d < 10 THEN 48 + d ELSE 87 + d

\* \uXXXX, in lower case.
UnicodeEscape(c) ==
  <<92, 117, HexDigit(c \div 4096), HexDigit((c \div 256) % 16),
    HexDigit((c \div 16) % 16), HexDigit(c % 16)>>

\* QuoteJSONString without its quotes, from position i of s on.
RECURSIVE JSONEscape(_, _)
JSONEscape(s, i) ==
  IF i > Len(s) THEN <<>>
  ELSE IF IsPair(s, i) THEN <<s[i], s[i + 1]>> \o JSONEscape(s, i + 2)
  ELSE (CASE s[i] = 34 -> <<92, 34>>
          [] s[i] = 92 -> <<92, 92>>
          [] s[i] = 8 -> <<92, 98>>
          [] s[i] = 9 -> <<92, 116>>
          [] s[i] = 10 -> <<92, 110>>
          [] s[i] = 12 -> <<92, 102>>
          [] s[i] = 13 -> <<92, 114>>
          [] s[i] < 32 /\ s[i] \notin {8, 9, 10, 12, 13} -> UnicodeEscape(s[i])
          [] 55296 <= s[i] /\ s[i] <= 57343 -> UnicodeEscape(s[i])
          [] OTHER -> <<s[i]>>)
       \o JSONEscape(s, i + 1)

JSONString(s) == <<34>> \o JSONEscape(s, 1) \o <<34>>

JSONNumber(n) ==
  IF n.k = "fin" THEN NumberToString(n) ELSE NullWord

RECURSIVE JSONText(_)
RECURSIVE JSONMembers(_, _, _)
RECURSIVE JSONElements(_, _)

\* The text of a value other than undefined.
JSONText(value) ==
  CASE value.t = "null" -> NullWord
    [] value.t = "boolean" ->
         IF value.v THEN TrueWord
         ELSE FalseWord
    [] value.t = "number" -> JSONNumber(value)
    [] value.t = "string" -> JSONString(value.v)
    [] value.t = "array" -> <<91>> \o JSONElements(value.v, 1) \o <<93>>
    [] value.t = "object" -> <<123>> \o JSONMembers(value.v, 1, TRUE) \o <<125>>

\* "k1":v1,"k2":v2,... for the properties from the i-th on; first tells
\* that none has been written yet.
JSONMembers(members, i, first) ==
  IF i > Len(members) THEN <<>>
  ELSE IF members[i].v.t = "undefined" THEN JSONMembers(members, i + 1, first)
  ELSE (IF first THEN <<>> ELSE <<44>>)
       \o JSONString(members[i].k) \o <<58>> \o JSONText(members[i].v)
       \o JSONMembers(members, i + 1, FALSE)

JSONElements(items, i) ==
  IF i > Len(items) THEN <<>>
  ELSE (IF items[i].t = "undefined" THEN NullWord
        ELSE JSONText(items[i]))
       \o (IF i < Len(items) THEN <<44>> ELSE <<>>)
       \o JSONElements(items, i + 1)

\* JSON.stringify(value): a string, or undefined for undefined.
stringify(value) ==
  IF value.t = "undefined" THEN Undefined ELSE Str(JSONText(value))

(***************************************************************************)
(* JSON.parse: the whole JSON grammar.  A result is [ok, v, pos]: whether  *)
(* a value was read, the value, and the position after it; ok = FALSE      *)
(* stands for the SyntaxError.                                             *)
(***************************************************************************)
JFail == [ok |-> FALSE, v |-> Undefined, pos |-> 0]

JRes(v, pos) == [ok |-> TRUE, v |-> v, pos |-> pos]

\* The first position from i on that holds no JSON white space.
RECURSIVE SkipSpace(_, _)
SkipSpace(s, i) ==
  IF i <= Len(s) /\ s[i] \in {9, 10, 13, 32} THEN SkipSpace(s, i + 1) ELSE i

\* The characters of a string from position i, after the opening quote;
\* acc is what has been read.
RECURSIVE ParseString(_, _, _)
ParseString(s, i, acc) ==
  IF i > Len(s) \/ s[i] < 32 THEN JFail
  ELSE IF s[i] = 34 THEN JRes(Str(acc), i + 1)
  ELSE IF s[i] = 92
       THEN IF i + 1 > Len(s) THEN JFail
            ELSE IF s[i + 1] \in {34, 92, 47}
                 THEN ParseString(s, i + 2, Append(acc, s[i + 1]))
            ELSE IF s[i + 1] = 98 THEN ParseString(s, i + 2, Append(acc, 8))
            ELSE IF s[i + 1] = 102 THEN ParseString(s, i + 2, Append(acc, 12))
            ELSE IF s[i + 1] = 110 THEN ParseString(s, i + 2, Append(acc, 10))
            ELSE IF s[i + 1] = 114 THEN ParseString(s, i + 2, Append(acc, 13))
            ELSE IF s[i + 1] = 116 THEN ParseString(s, i + 2, Append(acc, 9))
            ELSE IF /\ s[i + 1] = 117
                    /\ i + 5 <= Len(s)
                    /\ \A j \in (i + 2)..(i + 5) : HexVal(s[j]) < 16
                 THEN ParseString(s, i + 6,
                        Append(acc, HexVal(s[i + 2]) * 4096 + HexVal(s[i + 3]) * 256
                                      + HexVal(s[i + 4]) * 16 + HexVal(s[i + 5])))
            ELSE JFail
       ELSE ParseString(s, i + 1, Append(acc, s[i]))

\* The mantissa of a number at position from, with its counts of digits,
\* times the exponent e read after it.
NumberExponent(s, from, whole, decimals, e) ==
  IF ~e.ok THEN JFail
  ELSE JRes(Decimal(FALSE, DecimalValue(s, from, whole, decimals),
                    e.exp - decimals), e.pos)

NumberFraction(s, from, whole, decimals) ==
  IF decimals = 0 THEN JFail
  ELSE NumberExponent(s, from, whole, decimals,
                      ReadExponent(s, from + whole + 1 + decimals))

NumberWhole(s, from, whole) ==
  IF whole = 0 THEN JFail
  ELSE IF from + whole <= Len(s) /\ s[from + whole] = 46
  THEN NumberFraction(s, from, whole, ScanDigits(s, from + whole + 1))
  ELSE NumberExponent(s, from, whole, 0, ReadExponent(s, from + whole))

\* (0 | [1-9][0-9]*) (. [0-9]+)? ([eE] [+-]? [0-9]+)? at position from.
NumberFrom(s, from) ==
  NumberWhole(s, from,
              IF from <= Len(s) /\ s[from] = 48 THEN 1 ELSE ScanDigits(s, from))

SignedNumber(negative, r) ==
  IF r.ok /\ negative THEN JRes(RNeg(r.v), r.pos) ELSE r

\* A number at position i: an optional '-', then the digits.
ParseNumber(s, i) ==
  SignedNumber(s[i] = 45, NumberFrom(s, IF s[i] = 45 THEN i + 1 ELSE i))

\* The word at position i of s.
ParseLiteral(s, i, word, value) ==
  IF i + Len(word) - 1 <= Len(s) /\ SubSeq(s, i, i + Len(word) - 1) = word
  THEN JRes(value, i + Len(word))
  ELSE JFail

RECURSIVE ParseValue(_, _)
RECURSIVE ParseMembers(_, _, _)
RECURSIVE MemberNamed(_, _, _)
RECURSIVE MemberColon(_, _, _, _)
RECURSIVE MemberValue(_, _, _, _)
RECURSIVE MemberNext(_, _, _)
RECURSIVE ParseElements(_, _, _)
RECURSIVE ElementValue(_, _, _)
RECURSIVE ElementNext(_, _, _)

\* An object or an array whose first position after the bracket and the
\* white space is j.
ObjectAt(s, j) ==
  IF j <= Len(s) /\ s[j] = 125 THEN JRes(Obj(<<>>), j + 1)
  ELSE ParseMembers(s, j, <<>>)

ArrayAt(s, j) ==
  IF j <= Len(s) /\ s[j] = 93 THEN JRes(Arr(<<>>), j + 1)
  ELSE ParseElements(s, j, <<>>)

\* A value at position i, which holds no white space.
ParseValue(s, i) ==
  IF i > Len(s) THEN JFail
  ELSE IF s[i] = 123 THEN ObjectAt(s, SkipSpace(s, i + 1))
  ELSE IF s[i] = 91 THEN ArrayAt(s, SkipSpace(s, i + 1))
  ELSE IF s[i] = 34 THEN ParseString(s, i + 1, <<>>)
  ELSE IF s[i] = 45 \/ s[i] \in Digit THEN ParseNumber(s, i)
  ELSE IF s[i] = 116 THEN ParseLiteral(s, i, TrueWord, Bool(TRUE))
  ELSE IF s[i] = 102 THEN ParseLiteral(s, i, FalseWord, Bool(FALSE))
  ELSE IF s[i] = 110 THEN ParseLiteral(s, i, NullWord, Null)
  ELSE JFail

\* The members of an object from position i (no white space there), with
\* the properties acc already read: the name, the colon, the value, then a
\* comma or the closing brace.  A name read twice keeps its place and
\* takes the later value.
ParseMembers(s, i, acc) ==
  IF i > Len(s) \/ s[i] # 34 THEN JFail
  ELSE MemberNamed(s, ParseString(s, i + 1, <<>>), acc)

MemberNamed(s, name, acc) ==
  IF ~name.ok THEN JFail
  ELSE MemberColon(s, name.v.v, SkipSpace(s, name.pos), acc)

MemberColon(s, key, colon, acc) ==
  IF colon > Len(s) \/ s[colon] # 58 THEN JFail
  ELSE MemberValue(s, key, ParseValue(s, SkipSpace(s, colon + 1)), acc)

MemberValue(s, key, val, acc) ==
  IF ~val.ok THEN JFail
  ELSE MemberNext(s, SkipSpace(s, val.pos), PutProperty(acc, key, val.v))

MemberNext(s, next, members) ==
  IF next > Len(s) THEN JFail
  ELSE IF s[next] = 44 THEN ParseMembers(s, SkipSpace(s, next + 1), members)
  ELSE IF s[next] = 125 THEN JRes(Obj(members), next + 1)
  ELSE JFail

\* The elements of an array from position i, with those of acc read.
ParseElements(s, i, acc) == ElementValue(s, ParseValue(s, i), acc)

ElementValue(s, val, acc) ==
  IF ~val.ok THEN JFail
  ELSE ElementNext(s, SkipSpace(s, val.pos), Append(acc, val.v))

ElementNext(s, next, items) ==
  IF next > Len(s) THEN JFail
  ELSE IF s[next] = 44 THEN ParseElements(s, SkipSpace(s, next + 1), items)
  ELSE IF s[next] = 93 THEN JRes(Arr(items), next + 1)
  ELSE JFail

\* The value read, when nothing but white space follows it.
WholeText(s, r) ==
  IF r.ok /\ SkipSpace(s, r.pos) = Len(s) + 1 THEN r ELSE JFail

\* JSON.parse(text)
JSONParse(s) == WholeText(s, ParseValue(s, SkipSpace(s, 1)))
(***************************************************************************)
(* The four persisted slices: the names of their fields (each the code     *)
(* units of the property name), their storage keys and their first-run     *)
(* defaults.                                                               *)
(***************************************************************************)
inner == <<105, 110, 110, 101, 114>>

peers == <<112, 101, 101, 114, 115>>

family == <<102, 97, 109, 105, 108, 121>>

media == <<109, 101, 100, 105, 97>>

professors == <<112, 114, 111, 102, 101, 115, 115, 111, 114, 115>>

fog == <<102, 111, 103>>

title == <<116, 105, 116, 108, 101>>

date == <<100, 97, 116, 101>>

carb_cognitive ==
  <<99, 97, 114, 98, 95, 99, 111, 103, 110, 105, 116, 105, 118, 101>>

carb_physical == <<99, 97, 114, 98, 95, 112, 104, 121, 115, 105, 99, 97, 108>>

carb_recovery ==
  <<99, 97, 114, 98, 95, 114, 101, 99, 111, 118, 101, 114, 121>>

id == <<105, 100>>

domain == <<100, 111, 109, 97, 105, 110>>

supportPerson ==
  <<115, 117, 112, 112, 111, 114, 116, 80, 101, 114, 115, 111, 110>>

booster == <<98, 111, 111, 115, 116, 101, 114>>

RadarKeys == <<inner, peers, family, media, professors, fog>>

GoalKeys == <<title, date, carb_cognitive, carb_physical, carb_recovery>>

LogEntryKeys == <<id, date, domain>>

CrisisKeys == <<supportPerson, booster>>

StorageKeys == {"pilot_radar", "pilot_goal", "pilot_logs", "pilot_crisis"}

Prop(key, val) == [k |-> key, v |-> val]

\* data.field
Field(data, k) == Get(data, k)

DefaultRadar ==
  Obj(<<Prop(inner, RInt(30)), Prop(peers, RInt(90)),
        Prop(family, RInt(50)), Prop(media, RInt(70)),
        Prop(professors, RInt(60)), Prop(fog, RInt(75))>>)

DefaultGoal ==
  Obj(<<Prop(title, Str(<<>>)),
        Prop(date, Str(<<49, 53, 32, 77, 97, 105>>)),
        Prop(carb_cognitive, Str(<<>>)),
        Prop(carb_physical, Str(<<>>)),
        Prop(carb_recovery, Str(<<>>))>>)

DefaultLogs == Arr(<<>>)

DefaultCrisis ==
  Obj(<<Prop(supportPerson, Str(<<>>)),
        Prop(booster, Str(<<>>))>>)

initialValue(key) ==
  CASE key = "pilot_radar" -> DefaultRadar
    [] key = "pilot_goal" -> DefaultGoal
    [] key = "pilot_logs" -> DefaultLogs
    [] key = "pilot_crisis" -> DefaultCrisis

(***************************************************************************)
(* Page 1: analyzeSignal, the three fog bands.  The comparisons are those  *)
(* of the language: a fog that is no number is converted, and what does    *)
(* not compare (undefined, NaN) falls through to the last band.  The       *)
(* middle status is INTERM\'EDIAIRE, the E with an acute accent being the  *)
(* code unit 201.                                                          *)
(***************************************************************************)
Analysis(status, color) == [status |-> status, color |-> color]

Optimal == Analysis(<<79, 80, 84, 73, 77, 65, 76>>, "text-emerald-400")

Intermediaire ==
  Analysis(<<73, 78, 84, 69, 82, 77>> \o <<201>>
             \o <<68, 73, 65, 73, 82, 69>>,
           "text-orange-400")

Critique == Analysis(<<67, 82, 73, 84, 73, 81, 85, 69>>, "text-red-500")

\* The band of a fog made a number; a comparison with a number is one of
\* numbers, and one with NaN is false.
BandStrict(n) ==
  IF n.t = "throw" THEN Throw
  ELSE IF RLess(n, RInt(30)) THEN Optimal
  ELSE IF RLessEq(n, RInt(70)) THEN Intermediaire
  ELSE Critique

Band(n) ==
  IF n.t = "throw" THEN Throw
  ELSE IF RLessEq(n, RInt(30)) THEN Optimal
  ELSE IF RLessEq(n, RInt(70)) THEN Intermediaire
  ELSE Critique

\* Variant: the lower band closed with < instead of <=.
analyzeSignalStrict(data) == BandStrict(ToNumber(Field(data, fog)))

\* data.fog <= 30, then data.fog <= 70.  A TypeError when data is null or
\* undefined, or fog does not convert.
analyzeSignal(data) == Band(ToNumber(Field(data, fog)))

(***************************************************************************)
(* Page 4: calculateMatrix and the authorization banner.  Every operator   *)
(* is the language's: + adds numbers and joins strings, the others         *)
(* convert to numbers, and a TypeError (Throw) goes through.  Plus, Minus, *)
(* Times and Over take the properties as they are; Add, Sub, Mul and Div   *)
(* take operands that are numbers already, the literals and the results    *)
(* of the arithmetic.                                                      *)
(***************************************************************************)
Add(x, y) == Sum(<<x, y>>)

Sub(x, y) == Difference(<<x, y>>)

Mul(x, y) == Product(<<x, y>>)

Div(x, y) == Quotient(<<x, y>>)

\* c.length > 2, of a length that converts.
IsLong(length) == GreaterThan(length, RInt(2))

CarbKeys == <<carb_cognitive, carb_physical, carb_recovery>>

\* The lengths c.length of the three anchors.
CarbLengths(goal) == [i \in 1..3 |-> Get(Field(goal, CarbKeys[i]), Length)]

CountLong(lengths) ==
  IF \E i \in 1..3 : ~Converts(lengths[i]) THEN Throw
  ELSE RInt(Cardinality({i \in 1..3 : IsLong(lengths[i])}))

\* [a, b, c].filter(c => c.length > 2).length
carbCount(goal) == CountLong(CarbLengths(goal))

OneIfLong(length) ==
  IF ~Converts(length) THEN Throw
  ELSE IF IsLong(length) THEN RInt(1)
  ELSE RInt(0)

\* goal.title.length > 2 ? 1 : 0
goalSet(goal) == OneIfLong(Get(Field(goal, title), Length))

\* a + b + c + d, from the left: the first n of the values.
RECURSIVE PlusAll(_, _)
PlusAll(values, n) ==
  IF n = 1 THEN values[1] ELSE Plus(PlusAll(values, n - 1), values[n])

NoiseKeys == <<peers, media, family, professors>>

\* (radar.peers + radar.media + radar.family + radar.professors) / 4
externalNoise(radar) ==
  Over(PlusAll([i \in 1..4 |-> Field(radar, NoiseKeys[i])], 4), RInt(4))

\* The literals 0.5, 0.3, 0.2 and 0.4 (0.6 in a variant): the doubles
\* nearest to them.
Point5 == Decimal(FALSE, <<5>>, -1)

Point3 == Decimal(FALSE, <<3>>, -1)

Point2 == Decimal(FALSE, <<2>>, -1)

Point4 == Decimal(FALSE, <<4>>, -1)

Point6 == Decimal(FALSE, <<6>>, -1)

\* Variant: the complement of the external noise left out (the noise
\* itself weighted).
masteryScoreNoise(radar) ==
  Div(Add(Add(Times(Field(radar, inner), Point5),
              Mul(Minus(RInt(100), Field(radar, fog)), Point3)),
          Mul(externalNoise(radar), Point2)),
      RInt(10))

\* ((radar.inner * 0.5) + ((100 - radar.fog) * 0.3)
\*    + ((100 - externalNoise) * 0.2)) / 10
masteryScore(radar) ==
  Div(Add(Add(Times(Field(radar, inner), Point5),
              Mul(Minus(RInt(100), Field(radar, fog)), Point3)),
          Mul(Sub(RInt(100), externalNoise(radar)), Point2)),
      RInt(10))

MinOf(n) == IF Threw(n) THEN Throw ELSE MathMin(n[1], n[2])

\* Math.min(a, b): both made numbers.
Math_min(a, b) == MinOf(Numbers(Primitives(a, b)))

\* Variant: the log count weighted 0.6 instead of 0.4.
impactScoreLogHeavy(goal, logCount) ==
  Add(Add(Mul(Mul(Div(carbCount(goal), RInt(3)), RInt(10)), Point4),
          Mul(Mul(goalSet(goal), RInt(10)), Point2)),
      Mul(Mul(Div(Math_min(logCount, RInt(10)), RInt(10)), RInt(10)),
          Point6))

\* Variant: the log count not capped at 10.
impactScoreNoCap(goal, logCount) ==
  Add(Add(Mul(Mul(Div(carbCount(goal), RInt(3)), RInt(10)), Point4),
          Mul(Mul(goalSet(goal), RInt(10)), Point2)),
      Mul(Mul(Over(logCount, RInt(10)), RInt(10)), Point4))

\* ((carbCount / 3) * 10 * 0.4) + (goalSet * 10 * 0.2)
\*    + (Math.min(logCount, 10) / 10 * 10 * 0.4)
impactScore(goal, logCount) ==
  Add(Add(Mul(Mul(Div(carbCount(goal), RInt(3)), RInt(10)), Point4),
          Mul(Mul(goalSet(goal), RInt(10)), Point2)),
      Mul(Mul(Div(Math_min(logCount, RInt(10)), RInt(10)), RInt(10)),
          Point4))

\* { x, y } of two scores, or the TypeError of either.
MatrixOf(x, y) ==
  IF x.t = "throw" \/ y.t = "throw" THEN Throw
  ELSE [t |-> "matrix", x |-> x, y |-> y]

\* { x: masteryScore, y: impactScore }
calculateMatrix(radar, goal, logCount) ==
  MatrixOf(masteryScore(radar), impactScore(goal, logCount))

\* Variant: the thresholds met with >= instead of >.
authorizationAtLeast(m) ==
  /\ m.t = "matrix"
  /\ RLessEq(RInt(7), m.x)
  /\ RLessEq(RInt(7), m.y)

\* x > 7 && y > 7, of the two numbers
authorization(m) ==
  /\ m.t = "matrix"
  /\ RGreater(m.x, RInt(7))
  /\ RGreater(m.y, RInt(7))
(***************************************************************************)
(* The state: the App shell's four slices and active tab, the Cockpit      *)
(* page's own state, the browser's localStorage, and two history           *)
(* variables: what each key last had written successfully, and the         *)
(* handler that ran last.                                                  *)
(***************************************************************************)
VARIABLES
  activeTab,      \* 'radar' | 'ascension' | 'cockpit' | 'mission'
  radarData,      \* RadarState, or whatever JSON.parse gave
  goalData,       \* GoalState, or whatever JSON.parse gave
  plusOneLogs,    \* LogEntry[], or whatever JSON.parse gave
  crisisData,     \* CrisisState, or whatever JSON.parse gave
  crisisMode,     \* PageCockpit: the SOS card is open
  newLog,         \* PageCockpit: the text of the log input
  localStorage,   \* key -> [present, text]; getItem is null when not present
  lastSaved,      \* history: key -> [saved, value] of the last setItem that succeeded
  lastOp          \* history: the handler that ran last, and what became of its write

vars ==
  <<activeTab, radarData, goalData, plusOneLogs, crisisData, crisisMode,
    newLog, localStorage, lastSaved, lastOp>>

Tabs == {"radar", "ascension", "cockpit", "mission"}

NoItem == [present |-> FALSE, text |-> <<>>]

\* lastOp: the handler, and its setItem ("ok", "failed", or "none" when
\* the handler wrote nothing).
Op(name, wrote) == [op |-> name, wrote |-> wrote]

Wrote(quota) == IF quota THEN "ok" ELSE "failed"

Item(text) == [present |-> TRUE, text |-> text]

(***************************************************************************)
(* Rendering.  A page reads its slices while it renders; a TypeError       *)
(* there, or an object given to React as a child, is caught by nothing:    *)
(* React takes the whole tree down, tab bar included, and no handler can   *)
(* run until the page is loaded again.  (The chart of the Radar page is    *)
(* taken to draw whatever it is given.)                                    *)
(***************************************************************************)
\* What React renders as a child: no object, and an array of children.
RECURSIVE ValidChild(_)
ValidChild(value) ==
  CASE value.t \in {"throw", "object"} -> FALSE
    [] value.t = "array" -> \A i \in 1..Len(value.v) : ValidChild(value.v[i])
    [] OTHER -> TRUE

\* PageRadar: analyzeSignal, and each of the six values shown as {value}%.
RendersRadar(data) ==
  /\ Converts(Field(data, fog))
  /\ \A i \in 1..Len(RadarKeys) : ValidChild(Field(data, RadarKeys[i]))

\* PageAscension: each field is the value of an input, which React turns
\* into a string.
RendersAscension(data) ==
  \A i \in 1..Len(GoalKeys) : Converts(Field(data, GoalKeys[i]))

\* PageCockpit: logs.length, logs.slice().reverse().map(...) with log.id
\* as the key and log.date, log.domain as children; the crisis fields as
\* input values while the card is open.
RendersCockpit(logs, crisis, mode) ==
  /\ logs.t = "array"
  /\ \A i \in 1..Len(logs.v) :
       /\ Converts(Field(logs.v[i], id))
       /\ ValidChild(Field(logs.v[i], date))
       /\ ValidChild(Field(logs.v[i], domain))
  /\ mode => \A i \in 1..Len(CrisisKeys) : Converts(Field(crisis, CrisisKeys[i]))

\* PageMission, with logCount={plusOneLogs.length}.
RendersMission(radar, goal, logs) ==
  calculateMatrix(radar, goal, Get(logs, Length)).t # "throw"

Rendered ==
  CASE activeTab = "radar" -> RendersRadar(radarData)
    [] activeTab = "ascension" -> RendersAscension(goalData)
    [] activeTab = "cockpit" -> RendersCockpit(plusOneLogs, crisisData, crisisMode)
    [] activeTab = "mission" -> RendersMission(radarData, goalData, plusOneLogs)

(***************************************************************************)
(* useLocalStorage: the lazy initial read, and setValue.                   *)
(***************************************************************************)
\* Variant: the stored item ignored, the default always taken.
useLocalStorageDefault(store, key) == initialValue(key)

\* What JSON.parse read, or the value of the catch when it threw.
ParsedOr(j, caught) == IF j.ok THEN j.v ELSE caught

\* The useState initializer: item ? JSON.parse(item) : initialValue, and
\* initialValue when JSON.parse throws.  What JSON.parse gives is taken as
\* it is.
useLocalStorage(store, key) ==
  IF store[key].present /\ store[key].text # <<>>
  THEN ParsedOr(JSONParse(store[key].text), initialValue(key))
  ELSE initialValue(key)

\* Variant: a write that fails takes the item of the key away.
setItemLosing(store, key, valueToStore, quota) ==
  IF quota
  THEN [store EXCEPT ![key] = Item(StringOf(stringify(valueToStore)))]
  ELSE [store EXCEPT ![key] = NoItem]

\* window.localStorage.setItem(key, JSON.stringify(valueToStore)); quota
\* is FALSE when the browser throws (storage full or denied).
setItem(store, key, valueToStore, quota) ==
  IF quota
  THEN [store EXCEPT ![key] = Item(StringOf(stringify(valueToStore)))]
  ELSE store

\* The slice kept under a key.
Slice(key) ==
  CASE key = "pilot_radar" -> radarData
    [] key = "pilot_goal" -> goalData
    [] key = "pilot_logs" -> plusOneLogs
    [] key = "pilot_crisis" -> crisisData

\* Variant: the item written from the state as it was before the update.
setValueStale(key, valueToStore, quota) ==
  LET set == valueToStore.t # "throw"
  IN  /\ radarData' = IF set /\ key = "pilot_radar" THEN valueToStore ELSE radarData
      /\ goalData' = IF set /\ key = "pilot_goal" THEN valueToStore ELSE goalData
      /\ plusOneLogs' = IF set /\ key = "pilot_logs" THEN valueToStore ELSE plusOneLogs
      /\ crisisData' = IF set /\ key = "pilot_crisis" THEN valueToStore ELSE crisisData
      /\ localStorage' =
           IF set THEN setItem(localStorage, key, Slice(key), quota)
           ELSE localStorage
      /\ lastSaved' =
           IF set /\ quota
           THEN [lastSaved EXCEPT ![key] = [saved |-> TRUE, value |-> valueToStore]]
           ELSE lastSaved

\* setValue: the state is set first, then the item is written; a throw of
\* the updater or of setItem is caught and logged.  valueToStore is what
\* the updater gave, Throw when it threw.
setValue(key, valueToStore, quota) ==
  LET set == valueToStore.t # "throw"
  IN  /\ radarData' = IF set /\ key = "pilot_radar" THEN valueToStore ELSE radarData
      /\ goalData' = IF set /\ key = "pilot_goal" THEN valueToStore ELSE goalData
      /\ plusOneLogs' = IF set /\ key = "pilot_logs" THEN valueToStore ELSE plusOneLogs
      /\ crisisData' = IF set /\ key = "pilot_crisis" THEN valueToStore ELSE crisisData
      /\ localStorage' =
           IF set THEN setItem(localStorage, key, valueToStore, quota)
           ELSE localStorage
      /\ lastSaved' =
           IF set /\ quota
           THEN [lastSaved EXCEPT ![key] = [saved |-> TRUE, value |-> valueToStore]]
           ELSE lastSaved

\* What became of the write of setValue.
WroteValue(valueToStore, quota) ==
  IF valueToStore.t = "throw" THEN "none" ELSE Wrote(quota)

(***************************************************************************)
(* The handlers.  A control of a page is there when that page is the       *)
(* active one and it rendered.                                             *)
(***************************************************************************)
\* The first n digits of s from position from on, under the sign at the
\* head of s; NaN when there is none.
DigitsPrefix(s, from, n) ==
  IF n = 0 THEN NaN ELSE WithSign(s[1] = 45, Round(FALSE, DigitsFrom(s, from, from + n - 1), 0, FALSE))

\* The number of hexadecimal digits of s from position i on.
RECURSIVE ScanHex(_, _)
ScanHex(s, i) ==
  IF i <= Len(s) /\ HexVal(s[i]) < 16 THEN 1 + ScanHex(s, i + 1) ELSE 0

HexPrefix(s, from, n) ==
  IF n = 0 THEN NaN
  ELSE WithSign(s[1] = 45,
                Round(FALSE, RadixValue(s, from, from + n - 1, 4),
                      0, FALSE))

\* The integer at position from of s: after 0x or 0X the hexadecimal
\* digits, else the decimal ones.
IntegerFrom(s, from) ==
  IF from + 1 <= Len(s) /\ s[from] = 48 /\ s[from + 1] \in {120, 88}
  THEN HexPrefix(s, from + 2, ScanHex(s, from + 2))
  ELSE DigitsPrefix(s, from, ScanDigits(s, from))

\* The text after its leading white space: a sign, then the integer.
IntegerPrefix(s) ==
  IntegerFrom(s, IF s # <<>> /\ s[1] \in {43, 45} THEN 2 ELSE 1)

\* parseInt(text): white space, a sign, then the digits there are; NaN
\* when there is none.
parseInt(text) == IntegerPrefix(TrimStart(text))

\* e.target.value of a range input set to v.
RangeValue(v) == DigitsOf(v)

\* s.charAt(0).toUpperCase() + s.slice(1)
Capitalised(s) == toUpperCase(charAt0(s)) \o slice1(s)

\* dayName.replace('.', '').toLowerCase(), its first letter made upper
\* case.
cleanDayName(dayName) == Capitalised(toLowerCase(RemoveFirstDot(dayName)))

\* The text cleanDayName, a space, dayNum of addPlusOneLog.
formattedDate(dayName, dayNum) ==
  cleanDayName(dayName) \o <<32>> \o NumberToString(RInt(dayNum))

\* The entry addPlusOneLog builds; now is the clock: Date.now() and the
\* short day name and day of month of new Date().
newEntry(text, now) ==
  Obj(<<Prop(id, RInt(now.ms)),
        Prop(date, Str(formattedDate(now.dayName, now.dayNum))),
        Prop(domain, Str(text))>>)

\* [...text]: the code points of a string, a surrogate pair being one.
RECURSIVE CodePoints(_, _)
CodePoints(s, i) ==
  IF i > Len(s) THEN <<>>
  ELSE IF IsPair(s, i) THEN <<Str(<<s[i], s[i + 1]>>)>> \o CodePoints(s, i + 2)
  ELSE <<Str(<<s[i]>>)>> \o CodePoints(s, i + 1)

\* Arrays and strings are what [...prev] can walk; anything else is a
\* TypeError.
Iterable(prev) == prev.t \in {"array", "string"}

\* [...prev], of an iterable.
SpreadArray(prev) ==
  IF prev.t = "array" THEN prev.v ELSE CodePoints(prev.v, 1)

\* Variant: the new entry put first.
addPlusOneLogFirst(prev, text, now) ==
  IF ~Iterable(prev) THEN Throw
  ELSE Arr(<<newEntry(text, now)>> \o SpreadArray(prev))

\* prev => [...prev, newEntry]
addPlusOneLog(prev, text, now) ==
  IF ~Iterable(prev) THEN Throw
  ELSE Arr(Append(SpreadArray(prev), newEntry(text, now)))

\* { ...prev }: the own properties of an object, the elements of an array
\* and the code units of a string under their indices, nothing of
\* anything else.
SpreadObject(prev) ==
  CASE prev.t = "object" -> prev.v
    [] prev.t = "array" ->
         [i \in 1..Len(prev.v) |-> Prop(DigitsOf(i - 1), prev.v[i])]
    [] prev.t = "string" ->
         [i \in 1..Len(prev.v) |-> Prop(DigitsOf(i - 1), Str(<<prev.v[i]>>))]
    [] OTHER -> <<>>

\* Variant: the value put in every field of the slice.
updateFieldAll(prev, key, val) ==
  Obj([i \in 1..Len(PutProperty(SpreadObject(prev), key, val)) |->
         Prop(PutProperty(SpreadObject(prev), key, val)[i].k, val)])

\* prev => ({ ...prev, [key]: val })
updateField(prev, key, val) == Obj(PutProperty(SpreadObject(prev), key, val))

UpdateRadar(key, val, quota) ==
  /\ activeTab = "radar"
  /\ RendersRadar(radarData)
  /\ setValue("pilot_radar",
              updateField(radarData, key, parseInt(RangeValue(val))),
              quota)
  /\ lastOp' = Op("updateRadar", Wrote(quota))
  /\ UNCHANGED <<activeTab, crisisMode, newLog>>

UpdateGoal(key, val, quota) ==
  /\ activeTab = "ascension"
  /\ RendersAscension(goalData)
  /\ setValue("pilot_goal", updateField(goalData, key, Str(val)), quota)
  /\ lastOp' = Op("updateGoal", Wrote(quota))
  /\ UNCHANGED <<activeTab, crisisMode, newLog>>

UpdateCrisis(key, val, quota) ==
  /\ activeTab = "cockpit"
  /\ RendersCockpit(plusOneLogs, crisisData, crisisMode)
  /\ crisisMode
  /\ setValue("pilot_crisis", updateField(crisisData, key, Str(val)), quota)
  /\ lastOp' = Op("updateCrisis", Wrote(quota))
  /\ UNCHANGED <<activeTab, crisisMode, newLog>>

SetCrisisMode(b) ==
  /\ activeTab = "cockpit"
  /\ RendersCockpit(plusOneLogs, crisisData, crisisMode)
  /\ crisisMode # b
  /\ crisisMode' = b
  /\ lastOp' = Op("setCrisisMode", "none")
  /\ UNCHANGED <<activeTab, radarData, goalData, plusOneLogs, crisisData,
                 newLog, localStorage, lastSaved>>

SetNewLog(text) ==
  /\ activeTab = "cockpit"
  /\ RendersCockpit(plusOneLogs, crisisData, crisisMode)
  /\ newLog' = text
  /\ lastOp' = Op("setNewLog", "none")
  /\ UNCHANGED <<activeTab, radarData, goalData, plusOneLogs, crisisData,
                 crisisMode, localStorage, lastSaved>>

\* addLog(newLog); setNewLog(""), valueToStore being what the updater of
\* addPlusOneLog gave.
addLog(valueToStore, quota) ==
  /\ setValue("pilot_logs", valueToStore, quota)
  /\ newLog' = <<>>
  /\ lastOp' = Op("handleAddLog", WroteValue(valueToStore, quota))
  /\ UNCHANGED <<activeTab, crisisMode>>

\* Variant: the input tested without trim.
HandleAddLogNoTrim(now, quota) ==
  /\ activeTab = "cockpit"
  /\ RendersCockpit(plusOneLogs, crisisData, crisisMode)
  /\ IF newLog # <<>>
     THEN addLog(addPlusOneLog(plusOneLogs, newLog, now), quota)
     ELSE /\ lastOp' = Op("handleAddLog", "none")
          /\ UNCHANGED <<activeTab, radarData, goalData, plusOneLogs, crisisData,
                         crisisMode, newLog, localStorage, lastSaved>>

\* handleAddLog: if (newLog.trim()) { addLog(newLog); setNewLog("") }
HandleAddLog(now, quota) ==
  /\ activeTab = "cockpit"
  /\ RendersCockpit(plusOneLogs, crisisData, crisisMode)
  /\ IF trim(newLog) # <<>>
     THEN addLog(addPlusOneLog(plusOneLogs, newLog, now), quota)
     ELSE /\ lastOp' = Op("handleAddLog", "none")
          /\ UNCHANGED <<activeTab, radarData, goalData, plusOneLogs, crisisData,
                         crisisMode, newLog, localStorage, lastSaved>>

\* Variant: the log cleared without heeding the answer to window.confirm.
ClearLogsUnasked(confirmed, quota) ==
  /\ activeTab = "cockpit"
  /\ RendersCockpit(plusOneLogs, crisisData, crisisMode)
  /\ GreaterThan(Get(plusOneLogs, Length), RInt(0))
  /\ setValue("pilot_logs", Arr(<<>>), quota)
  /\ lastOp' = Op("clearLogs", IF confirmed THEN Wrote(quota) ELSE "none")
  /\ UNCHANGED <<activeTab, crisisMode, newLog>>

\* clearLogs, behind the trash button shown when logs.length > 0;
\* confirmed is the answer to window.confirm.
ClearLogs(confirmed, quota) ==
  /\ activeTab = "cockpit"
  /\ RendersCockpit(plusOneLogs, crisisData, crisisMode)
  /\ GreaterThan(Get(plusOneLogs, Length), RInt(0))
  /\ IF confirmed
     THEN /\ setValue("pilot_logs", Arr(<<>>), quota)
          /\ lastOp' = Op("clearLogs", Wrote(quota))
          /\ UNCHANGED <<activeTab, crisisMode, newLog>>
     ELSE /\ lastOp' = Op("clearLogs", "none")
          /\ UNCHANGED <<activeTab, radarData, goalData, plusOneLogs, crisisData,
                         crisisMode, newLog, localStorage, lastSaved>>

\* setActiveTab(tab.id); leaving the Cockpit unmounts it and drops its state.
SetActiveTab(tab) ==
  /\ Rendered
  /\ activeTab' = tab
  /\ crisisMode' = IF tab = "cockpit" /\ activeTab = "cockpit" THEN crisisMode ELSE FALSE
  /\ newLog' = IF tab = "cockpit" /\ activeTab = "cockpit" THEN newLog ELSE <<>>
  /\ lastOp' = Op("setActiveTab", "none")
  /\ UNCHANGED <<radarData, goalData, plusOneLogs, crisisData, localStorage,
                 lastSaved>>

\* The page is loaded: every useState starts over, the four slices from
\* localStorage.
Mount(store) ==
  /\ activeTab = "radar"
  /\ radarData = useLocalStorage(store, "pilot_radar")
  /\ goalData = useLocalStorage(store, "pilot_goal")
  /\ plusOneLogs = useLocalStorage(store, "pilot_logs")
  /\ crisisData = useLocalStorage(store, "pilot_crisis")
  /\ crisisMode = FALSE
  /\ newLog = <<>>

Reload ==
  /\ activeTab' = "radar"
  /\ radarData' = useLocalStorage(localStorage, "pilot_radar")
  /\ goalData' = useLocalStorage(localStorage, "pilot_goal")
  /\ plusOneLogs' = useLocalStorage(localStorage, "pilot_logs")
  /\ crisisData' = useLocalStorage(localStorage, "pilot_crisis")
  /\ crisisMode' = FALSE
  /\ newLog' = <<>>
  /\ lastOp' = Op("reload", "none")
  /\ UNCHANGED <<localStorage, lastSaved>>

(***************************************************************************)
(* Bounds and input sets.                                                  *)
(***************************************************************************)
\* The range of the sliders (min and max of the range inputs).
SliderMin == 0

SliderMax == 100

\* The longest log of the log specification, and the number of distinct
\* clock readings.
MaxLogs == 3

MaxClock == 2

\* The longest log of the scoring specifications (beyond the cap of 10).
MaxLogCount == 12

\* The longest log of the whole-application specification.
MaxAppLogs == 1

DayNames ==
  <<<<108, 117, 110, 46>>, <<77, 97, 114, 46>>,
    <<109, 101, 114, 46>>, <<106, 101, 117, 46>>,
    <<118, 101, 110, 46>>, <<115, 97, 109, 46>>,
    <<100, 105, 109, 46>>>>

\* The i-th clock reading: Date.now() = i, with a day name and a day of
\* the month for new Date().
Reading(i) ==
  [ms |-> i, dayName |-> DayNames[((i - 1) % 7) + 1],
   dayNum |-> 1 + (((i - 1) * 15) % 31)]

Clock == {Reading(i) : i \in 1..MaxClock}

\* What the log input may hold: nothing, a tab and a no-break space, a
\* text with a leading space.
LogTexts == {<<>>, <<9, 160>>, <<32, 97>>}

NeverSaved == [k \in StorageKeys |-> [saved |-> FALSE, value |-> initialValue(k)]]

\* localStorage with the four texts, NoItem for a key never written.
Store(radar, goal, logs, crisis) ==
  [k \in StorageKeys |->
     CASE k = "pilot_radar" -> radar
       [] k = "pilot_goal" -> goal
       [] k = "pilot_logs" -> logs
       [] k = "pilot_crisis" -> crisis]

\* Texts that another program, an earlier version or the user may have
\* left under the keys.
NullText == NullWord

SpacedRadarText ==
  <<32, 123, 34, 102, 111, 103, 34, 58, 32, 49, 48, 44, 32, 34, 101, 120, 116, 114, 97, 34, 58, 32, 116, 114, 117, 101, 125>>

LooseGoalText ==
  <<123, 34, 116, 105, 116, 108, 101, 34, 58, 34, 97, 98, 99, 100, 34, 44, 34, 99, 97, 114, 98, 95, 112, 104, 121, 115, 105, 99, 97, 108, 34, 58, 49, 50, 46, 53, 44, 34, 99, 97, 114, 98, 95, 114, 101, 99, 111, 118, 101, 114, 121, 34, 58, 110, 117, 108, 108, 125>>

OneLogText ==
  <<91, 32, 123, 34, 105, 100, 34, 58, 53, 44, 34, 100, 97, 116, 101, 34, 58, 34, 76, 117, 110, 32, 49, 34, 44, 34, 100, 111, 109, 97, 105, 110, 34, 58, 34, 97, 92, 117, 48, 48, 101, 57, 34, 125, 32, 93>>

StringText == <<34, 97, 98, 34>>

ArrayLikeText == <<123, 34, 108, 101, 110, 103, 116, 104, 34, 58, 49, 48, 125>>

\* What localStorage holds before the session: nothing; texts that are
\* empty or not JSON; JSON of the program's shapes written otherwise;
\* JSON of other shapes.
InitialStores ==
  {Store(NoItem, NoItem, NoItem, NoItem),
   Store(Item(<<>>), Item(<<123>>), NoItem, Item(UndefinedWord)),
   Store(Item(SpacedRadarText), Item(LooseGoalText), Item(OneLogText), Item(StringText)),
   Store(Item(<<91, 93>>), Item(<<55>>), Item(ArrayLikeText), Item(NullText)),
   Store(Item(NullText), NoItem, NoItem, NoItem)}

(***************************************************************************)
(* The application: first mount, then handlers and reloads.                *)
(***************************************************************************)
Init ==
  /\ localStorage \in InitialStores
  /\ Mount(localStorage)
  /\ lastSaved = NeverSaved
  /\ lastOp = Op("mount", "none")

InitFirstRun ==
  /\ localStorage = Store(NoItem, NoItem, NoItem, NoItem)
  /\ Mount(localStorage)
  /\ lastSaved = NeverSaved
  /\ lastOp = Op("mount", "none")

\* The length of the log, when it is an array.
LogLength == IF plusOneLogs.t = "array" THEN Len(plusOneLogs.v) ELSE 0

(***************************************************************************)
(* SpecLog: the Cockpit's log (input, append, clear), tab changes and      *)
(* reloads, with writes that may fail.                                     *)
(***************************************************************************)
LogTabs == {"radar", "cockpit"}

AddLogStep ==
  \E now \in Clock, quota \in BOOLEAN :
    /\ LogLength < MaxLogs
    /\ HandleAddLog(now, quota)

ClearLogsStep == \E confirmed \in BOOLEAN, quota \in BOOLEAN : ClearLogs(confirmed, quota)

NextLog ==
  \/ \E text \in LogTexts : SetNewLog(text)
  \/ AddLogStep
  \/ ClearLogsStep
  \/ \E tab \in LogTabs : SetActiveTab(tab)
  \/ Reload

SpecLog == InitFirstRun /\ [][NextLog]_vars

(***************************************************************************)
(* SpecRadar: the Radar page.  The fog slider takes every value of its     *)
(* range, the inner-voice slider its two ends.                             *)
(***************************************************************************)
SliderRange == SliderMin..SliderMax

RadarPageInputs ==
  {<<fog, v>> : v \in SliderRange} \cup {<<inner, v>> : v \in {SliderMin, SliderMax}}

NextRadar ==
  \/ \E in \in RadarPageInputs : UpdateRadar(in[1], in[2], TRUE)
  \/ \E tab \in Tabs : SetActiveTab(tab)
  \/ Reload

SpecRadar == InitFirstRun /\ [][NextRadar]_vars

(***************************************************************************)
(* SpecScore: the application around the Mission page: radar and goal      *)
(* edits that put the scores below, on and above 7, and a log that grows   *)
(* past the cap of 10 and is cleared.  Writes succeed.                     *)
(***************************************************************************)
Blank3 == <<32, 32, 32>>

Abc == <<97, 98, 99>>

Ab == <<97, 98>>

ScoreRadarInputs ==
  {<<inner, 100>>, <<fog, 60>>, <<fog, 0>>, <<peers, 60>>}

ScoreGoalInputs ==
  {<<title, Abc>>, <<carb_cognitive, Abc>>, <<carb_physical, Abc>>,
   <<carb_recovery, Abc>>}

ScoreAddLogStep ==
  /\ LogLength < MaxLogCount
  /\ HandleAddLog(Reading(1 + LogLength), TRUE)

NextScore ==
  \/ \E in \in ScoreRadarInputs : UpdateRadar(in[1], in[2], TRUE)
  \/ \E in \in ScoreGoalInputs : UpdateGoal(in[1], in[2], TRUE)
  \/ SetNewLog(<<97>>)
  \/ ScoreAddLogStep
  \/ ClearLogs(TRUE, TRUE)
  \/ \E tab \in Tabs : SetActiveTab(tab)

SpecScore == InitFirstRun /\ [][NextScore]_vars

(***************************************************************************)
(* SpecMatrix: calculateMatrix as a function.  The session starts from     *)
(* saved slices: either a radar drawn from a grid of slider stops (for the *)
(* inner voice and the fog the ends of the range, their neighbours and the *)
(* middle; for the four noises the ends and the middle), or a goal drawn   *)
(* from sample texts with a log of 0..MaxLogCount entries; the Mission     *)
(* page then renders it.                                                   *)
(***************************************************************************)
SliderStops == {0, 1, 50, 99, 100}

TitleTexts == {<<>>, Ab, Abc, Blank3}

CarbTexts == {<<>>, Ab, Abc, Blank3, <<32, 97, 32>>}

\* The slice with the fields keys, in that order, and the values vals.
SliceOf(keys, vals) == Obj([i \in 1..Len(keys) |-> Prop(keys[i], vals[i])])

\* The stops of the four sliders of the external noise.
NoiseStops == {0, 50, 100}

\* inner, peers, family, media, professors, fog
RadarSamples ==
  {SliceOf(RadarKeys,
           <<RInt(in[1]), RInt(in[2]), RInt(in[3]), RInt(in[4]), RInt(in[5]), RInt(in[6])>>) :
     in \in SliderStops \X NoiseStops \X NoiseStops \X NoiseStops \X NoiseStops
              \X SliderStops}

GoalSamples ==
  {SliceOf(GoalKeys,
           <<Str(in[1]), Field(DefaultGoal, date), Str(in[2]), Str(in[3]), Str(in[4])>>) :
     in \in TitleTexts \X CarbTexts \X CarbTexts \X CarbTexts}

\* The log after n appends at the clock readings 1..n.
LogOfLength(n) == Arr([i \in 1..n |-> newEntry(<<97>>, Reading(i))])

LogSamples == {LogOfLength(n) : n \in 0..MaxLogCount}

SavedSession(radar, goal, logs, crisis) ==
  /\ localStorage =
       Store(Item(StringOf(stringify(radar))), Item(StringOf(stringify(goal))),
             Item(StringOf(stringify(logs))), Item(StringOf(stringify(crisis))))
  /\ lastSaved =
       [k \in StorageKeys |->
          [saved |-> TRUE,
           value |-> CASE k = "pilot_radar" -> radar
                       [] k = "pilot_goal" -> goal
                       [] k = "pilot_logs" -> logs
                       [] k = "pilot_crisis" -> crisis]]
  /\ Mount(localStorage)
  /\ lastOp = Op("mount", "none")

InitMatrix ==
  \/ \E radar \in RadarSamples :
       SavedSession(radar, DefaultGoal, DefaultLogs, DefaultCrisis)
  \/ \E goal \in GoalSamples, logs \in LogSamples :
       SavedSession(DefaultRadar, goal, logs, DefaultCrisis)

NextMatrix == \E tab \in {"mission", "radar"} : SetActiveTab(tab)

SpecMatrix == InitMatrix /\ [][NextMatrix]_vars

(***************************************************************************)
(* Spec: the whole application, every handler, with writes that may fail,  *)
(* on small inputs.                                                        *)
(***************************************************************************)
AppRadarInputs == {<<fog, 0>>}

\* A title with a quote and a tab, an anchor that is a backslash.
AppGoalInputs == {<<title, <<97, 34, 9>>>>, <<carb_recovery, <<92>>>>}

AppCrisisInputs == {<<booster, <<97>>>>}

\* The text typed in the log input (a blank submit is the one of the empty
\* input).
AppLogTexts == {<<32, 97>>}

AppAddLogStep ==
  \E quota \in BOOLEAN :
    /\ LogLength < MaxAppLogs
    /\ HandleAddLog(Reading(1), quota)

Next ==
  \/ \E in \in AppRadarInputs, quota \in BOOLEAN : UpdateRadar(in[1], in[2], quota)
  \/ \E in \in AppGoalInputs, quota \in BOOLEAN : UpdateGoal(in[1], in[2], quota)
  \/ \E in \in AppCrisisInputs, quota \in BOOLEAN : UpdateCrisis(in[1], in[2], quota)
  \/ \E b \in BOOLEAN : SetCrisisMode(b)
  \/ \E text \in AppLogTexts : SetNewLog(text)
  \/ AppAddLogStep
  \/ ClearLogsStep
  \/ \E tab \in Tabs : SetActiveTab(tab)
  \/ Reload

Spec == Init /\ [][Next]_vars

(***************************************************************************)
(* What the pages show, read off the state.                                *)
(***************************************************************************)
\* logCount={plusOneLogs.length}
logCount == Get(plusOneLogs, Length)

Matrix == calculateMatrix(radarData, goalData, logCount)

\* The banner of the Mission page: the page is rendered and x > 7 && y > 7.
AuthorizationShown == activeTab = "mission" /\ authorization(Matrix)

\* The status shown on the Radar page, nothing when analyzeSignal throws.
FogStatus ==
  IF Converts(Field(radarData, fog)) THEN analyzeSignal(radarData).status
  ELSE <<>>

EmptyArrayText == <<91, 93>>

\* Whether a number that is not negative lies within 2^-40 of the fraction
\* num/den: | m * 2^e * den - num | * 2^40 <= den, with all the terms
\* times 2^w to make them whole.
Distance(x, y) == IF BigCompare(x, y) >= 0 THEN BigSub(x, y) ELSE BigSub(y, x)

NearAt(a, num, den, w) ==
  BigCompare(BigShiftLeft(Distance(BigShiftLeft(TimesSmall(a.m, den), a.e + w),
                                   BigShiftLeft(FromInt(num), w)), 40),
             BigShiftLeft(FromInt(den), w)) <= 0

Near(a, num, den) ==
  a.k = "fin" /\ ~a.neg /\ NearAt(a, num, den, Max(0, -a.e))

\* Whether a value is an integer of lo..hi.
IsInteger(value, lo, hi) ==
  /\ value.t = "number"
  /\ IsInt(value)
  /\ lo <= IntOf(value)
  /\ IntOf(value) <= hi

\* The integer held by a field of a slice.
IntField(data, k) == IntOf(Field(data, k))

RadarSum(radar) ==
  IntField(radar, peers) + IntField(radar, media)
    + IntField(radar, family) + IntField(radar, professors)

(***************************************************************************)
(* C1.  For every fog in 0..100 the classification is exactly one band:    *)
(* OPTIMAL when fog <= 30, INTERMEDIATE when 30 < fog <= 70, CRITICAL when *)
(* fog > 70 (30 -> OPTIMAL, 31 -> INTERMEDIATE, 70 -> INTERMEDIATE,        *)
(* 71 -> CRITICAL), whatever values the slider had before.                 *)
(***************************************************************************)
C1_FogBands ==
  LET level == IntField(radarData, fog)
  IN  /\ IsInteger(Field(radarData, fog), 0, 100)
      /\ FogStatus \in {Optimal.status, Intermediaire.status, Critique.status}
      /\ FogStatus = Optimal.status <=> level <= 30
      /\ FogStatus = Intermediaire.status <=> (30 < level /\ level <= 70)
      /\ FogStatus = Critique.status <=> level > 70
      /\ level = 30 => FogStatus = Optimal.status
      /\ level = 31 => FogStatus = Intermediaire.status
      /\ level = 70 => FogStatus = Intermediaire.status
      /\ level = 71 => FogStatus = Critique.status

\* The slider was moved to 30 on the Radar page: the band is OPTIMAL.
C1_Witness ==
  /\ lastOp.op = "updateRadar"
  /\ Field(radarData, fog) = RInt(30)
  /\ FogStatus = Optimal.status

(***************************************************************************)
(* C2.  The impact score equals (carbCount/3)*4 + goalSet*2 +              *)
(* (min(logCount,10)/10)*4 with carbCount the number of habit anchors      *)
(* whose TRIMMED length is greater than 2, so that an anchor of whitespace *)
(* only does not count.  (The code counts the untrimmed length.)           *)
(***************************************************************************)
TrimmedCarbCount(goal) ==
  Cardinality({i \in 1..Len(CarbKeys) : Len(trim(Field(goal, CarbKeys[i]).v)) > 2})

C2_ImpactCountsTrimmedAnchors ==
  Near(Matrix.y,
       20 * TrimmedCarbCount(goalData)
         + 30 * (IF Len(Field(goalData, title).v) > 2 THEN 1 ELSE 0)
         + 6 * Min(LogLength, 10),
       15)

(***************************************************************************)
(* C3.  With the goal fixed the impact score never decreases when an entry *)
(* is appended, and from 10 entries on an append leaves it unchanged; the  *)
(* score for 10 entries is the score for 1000.                             *)
(***************************************************************************)
\* The scores before and after an append to a log of n entries.
NotLowered(before, after, n) ==
  /\ before.k = "fin"
  /\ RLessEq(before, after)
  /\ n >= 10 => after = before

C3_ImpactMonotoneAndCapped ==
  [][(/\ plusOneLogs.t = "array"
      /\ plusOneLogs'.t = "array"
      /\ Len(plusOneLogs'.v) = Len(plusOneLogs.v) + 1
      /\ goalData' = goalData)
       => /\ NotLowered(impactScore(goalData, Get(plusOneLogs, Length)),
                        impactScore(goalData', Get(plusOneLogs', Length)),
                        Len(plusOneLogs.v))
          /\ impactScore(goalData, RInt(1000)) = impactScore(goalData, RInt(10))]_vars

\* An entry was appended to a log that already held more than 10.
C3_Witness ==
  /\ lastOp.op = "handleAddLog"
  /\ LogLength > 11

(***************************************************************************)
(* C4.  The mastery score equals (inner*0.5 + (100-fog)*0.3 +              *)
(* (100 - mean(peers, media, family, professors))*0.2)/10, lies in 0..10,  *)
(* and is 10 exactly when inner = 100 and the five other fields are 0; the *)
(* impact score lies in 0..10 too.  (200 times the mastery formula is      *)
(* 10*inner + 6*(100-fog) + 400 - (peers+media+family+professors).)        *)
(***************************************************************************)
MeanOf(radar) ==
  RDiv(RAdd(RAdd(RAdd(Field(radar, peers), Field(radar, media)),
                 Field(radar, family)), Field(radar, professors)), RInt(4))

MasteryFormula(radar) ==
  RDiv(RAdd(RAdd(RMul(Field(radar, inner), Point5),
                 RMul(RSub(RInt(100), Field(radar, fog)), Point3)),
            RMul(RSub(RInt(100), MeanOf(radar)), Point2)),
       RInt(10))

\* The scores m of the radar, whose fields are integers of 0..100.
ScoresInRange(m, radar) ==
  /\ m.x = MasteryFormula(radar)
  /\ Near(m.x,
          10 * IntField(radar, inner) + 6 * (100 - IntField(radar, fog))
            + 400 - RadarSum(radar),
          200)
  /\ RLessEq(RInt(0), m.x) /\ RLessEq(m.x, RInt(10))
  /\ m.x = RInt(10)
       <=> /\ IntField(radar, inner) = 100
           /\ IntField(radar, fog) = 0
           /\ RadarSum(radar) = 0
  /\ RLessEq(RInt(0), m.y) /\ RLessEq(m.y, RInt(10))

C4_ScoresInRange ==
  /\ \A i \in 1..Len(RadarKeys) : IsInteger(Field(radarData, RadarKeys[i]), 0, 100)
  /\ ScoresInRange(Matrix, radarData)

\* The Mission page renders the radar of the scenario: mastery 10.
C4_Witness ==
  /\ activeTab = "mission"
  /\ radarData = SliceOf(RadarKeys, <<RInt(100), RInt(0), RInt(0), RInt(0), RInt(0), RInt(0)>>)
  /\ Matrix.x = RInt(10)

(***************************************************************************)
(* C5.  On the Mission page the authorization banner is shown if and only  *)
(* if the mastery score and the impact score, computed from the current    *)
(* radar, goal and log count, are both strictly greater than 7 (exactly 7  *)
(* gives no banner); no persisted slice holds the signal: every property   *)
(* name in localStorage is a field of its slice.                           *)
(***************************************************************************)
MasteryAbove7 ==
  10 * IntField(radarData, inner) + 6 * (100 - IntField(radarData, fog))
    + 400 - RadarSum(radarData)
    > 7 * 200

ImpactAbove7 ==
  20 * IntOf(carbCount(goalData)) + 30 * IntOf(goalSet(goalData))
    + 6 * Min(LogLength, 10) > 7 * 15

\* The property names of a value (of the object, or of the objects of the
\* array).
NamesOf(value) ==
  IF value.t = "object" THEN {value.v[i].k : i \in 1..Len(value.v)}
  ELSE IF value.t = "array"
       THEN UNION {IF value.v[i].t = "object"
                   THEN {value.v[i].v[n].k : n \in 1..Len(value.v[i].v)}
                   ELSE {} : i \in 1..Len(value.v)}
  ELSE {}

\* The property names a stored text holds.
ParsedNames(j) == IF j.ok THEN NamesOf(j.v) ELSE {}

StoredNames(item) == ParsedNames(JSONParse(item.text))

FieldsOf(key) ==
  LET keys == CASE key = "pilot_radar" -> RadarKeys
                [] key = "pilot_goal" -> GoalKeys
                [] key = "pilot_logs" -> LogEntryKeys
                [] key = "pilot_crisis" -> CrisisKeys
  IN  {keys[i] : i \in 1..Len(keys)}

C5_AuthorizationThreshold ==
  /\ AuthorizationShown <=> (activeTab = "mission" /\ MasteryAbove7 /\ ImpactAbove7)
  /\ DOMAIN localStorage = StorageKeys
  /\ \A k \in StorageKeys : StoredNames(localStorage[k]) \subseteq FieldsOf(k)

\* The Mission page with a mastery of exactly 7 and an impact above 7: no
\* banner.
C5_Witness ==
  /\ activeTab = "mission"
  /\ Matrix.x = RInt(7)
  /\ ImpactAbove7
  /\ ~AuthorizationShown

(***************************************************************************)
(* C6.  Submitting a log text that is empty or whitespace only is a silent *)
(* no-op: the log, the persisted logs slice and everything else stay as    *)
(* they were.                                                              *)
(***************************************************************************)
C6_BlankSubmitIsNoOp ==
  [][(lastOp'.op = "handleAddLog" /\ (\A i \in 1..Len(newLog) : newLog[i] \in Whitespace))
       => /\ plusOneLogs' = plusOneLogs
          /\ localStorage' = localStorage
          /\ lastOp'.wrote = "none"
          /\ UNCHANGED <<activeTab, radarData, goalData, crisisData,
                         crisisMode, newLog, lastSaved>>]_vars

\* A text of a tab and a no-break space was submitted on a non-empty log:
\* it is still in the input, the log as before.
C6_Witness ==
  /\ lastOp = Op("handleAddLog", "none")
  /\ newLog = <<9, 160>>
  /\ LogLength > 0

(***************************************************************************)
(* C7.  The log is append-only: an accepted append (text non-empty after   *)
(* trimming) makes the log one longer, puts the new entry last with the    *)
(* submitted text as its domain, and leaves the earlier entries as they    *)
(* were, in the same order.                                                *)
(***************************************************************************)
C7_AppendOnly ==
  [][(lastOp'.op = "handleAddLog" /\ trim(newLog) # <<>>)
       => /\ plusOneLogs.t = "array"
          /\ plusOneLogs'.t = "array"
          /\ Len(plusOneLogs'.v) = Len(plusOneLogs.v) + 1
          /\ SubSeq(plusOneLogs'.v, 1, Len(plusOneLogs.v)) = plusOneLogs.v
          /\ Field(plusOneLogs'.v[Len(plusOneLogs'.v)], domain) = Str(newLog)]_vars

\* Two appends in a row at different clock readings: both entries, in
\* submission order.
C7_Witness ==
  /\ lastOp.op = "handleAddLog"
  /\ LogLength >= 2
  /\ Field(plusOneLogs.v[1], id) = RInt(2)
  /\ Field(plusOneLogs.v[2], id) = RInt(1)
  /\ Field(plusOneLogs.v[2], domain) = Str(<<32, 97>>)

(***************************************************************************)
(* C8.  As claimed: a confirmed clear leaves the log empty and the         *)
(* persisted logs slice holding the empty sequence; a declined one leaves  *)
(* both unchanged.                                                         *)
(***************************************************************************)
C8_ClearAlwaysPersisted ==
  [][lastOp'.op = "clearLogs"
       => \/ /\ plusOneLogs' = Arr(<<>>)
             /\ localStorage'["pilot_logs"] = Item(EmptyArrayText)
          \/ /\ plusOneLogs' = plusOneLogs
             /\ localStorage' = localStorage]_vars

(***************************************************************************)
(* C8, amended.  A confirmed clear leaves the log empty; the persisted     *)
(* logs slice then holds the empty sequence when the write succeeds and    *)
(* keeps its text when the write fails.  A declined clear leaves the log   *)
(* and localStorage unchanged.  The clear is offered only on a non-empty   *)
(* log, so an empty log is never cleared again.  No other key changes.     *)
(***************************************************************************)
C8_ClearPersistedWhenWritten ==
  [][lastOp'.op = "clearLogs"
       => /\ LogLength > 0
          /\ lastOp'.wrote = "ok"
               => /\ plusOneLogs' = Arr(<<>>)
                  /\ localStorage' =
                       [localStorage EXCEPT !["pilot_logs"] = Item(EmptyArrayText)]
          /\ lastOp'.wrote = "failed"
               => /\ plusOneLogs' = Arr(<<>>)
                  /\ localStorage' = localStorage
          /\ lastOp'.wrote = "none"
               => /\ plusOneLogs' = plusOneLogs
                  /\ localStorage' = localStorage]_vars

\* A confirmed clear whose write succeeded.
C8_Witness ==
  /\ lastOp = Op("clearLogs", "ok")
  /\ plusOneLogs = Arr(<<>>)
  /\ localStorage["pilot_logs"] = Item(EmptyArrayText)

(***************************************************************************)
(* C9.  No two entries of the log have the same id, and the ids increase   *)
(* strictly in storage order.  (Each id is Date.now() at the append; the   *)
(* code does nothing when two readings are equal or go backwards.)         *)
(***************************************************************************)
C9_IdsStrictlyIncreasing ==
  \A i, j \in 1..LogLength :
    i < j => IntField(plusOneLogs.v[i], id) < IntField(plusOneLogs.v[j], id)

(***************************************************************************)
(* C10.  Loading a key yields the value last written to it successfully,   *)
(* whatever was written to the other keys, and the default when the key    *)
(* is missing or holds text that does not parse; a mount or reload puts    *)
(* what the four keys load in the four slices.                             *)
(***************************************************************************)
Unreadable(item) == ~item.present \/ ~JSONParse(item.text).ok

C10_LoadYieldsLastSaved ==
  \A k \in StorageKeys :
    /\ lastSaved[k].saved => useLocalStorage(localStorage, k) = lastSaved[k].value
    /\ Unreadable(localStorage[k]) => useLocalStorage(localStorage, k) = initialValue(k)
    /\ lastOp.op \in {"mount", "reload"} => Slice(k) = useLocalStorage(localStorage, k)

\* After a reload: a goal whose title holds a quote and a tab came back as
\* saved, and the crisis key, which holds text that does not parse, gave
\* the default.
C10_Witness ==
  /\ lastOp.op = "reload"
  /\ lastSaved["pilot_goal"].saved
  /\ Field(goalData, title) = Str(<<97, 34, 9>>)
  /\ localStorage["pilot_crisis"] = Item(UndefinedWord)
  /\ crisisData = DefaultCrisis

(***************************************************************************)
(* C11.  As claimed: at every point between user actions each of the four  *)
(* slices in memory equals its persisted copy, that is, what a load of its *)
(* key yields (the default when the key holds nothing that parses).        *)
(***************************************************************************)
\* The slice in memory is what its key would load.
Consistent(key) == Slice(key) = useLocalStorage(localStorage, key)

\* The key a handler writes, "" for the handlers that write nothing.
KeyOf(op) ==
  CASE op = "updateRadar" -> "pilot_radar"
    [] op = "updateGoal" -> "pilot_goal"
    [] op = "updateCrisis" -> "pilot_crisis"
    [] op \in {"handleAddLog", "clearLogs"} -> "pilot_logs"
    [] OTHER -> ""

\* The slice of a key in the state a step leads to.
SliceAfter(key) ==
  CASE key = "pilot_radar" -> radarData'
    [] key = "pilot_goal" -> goalData'
    [] key = "pilot_logs" -> plusOneLogs'
    [] key = "pilot_crisis" -> crisisData'

ConsistentAfter(key) == SliceAfter(key) = useLocalStorage(localStorage', key)

C11_AlwaysConsistent == \A k \in StorageKeys : Consistent(k)

(***************************************************************************)
(* C11, amended.  After every update whose write succeeds the persisted    *)
(* item of the slice's key is the serialization of the slice in memory and *)
(* loads back as that value.  After an update whose write fails the slice  *)
(* in memory holds the new value and the persisted item is the one it was, *)
(* so the slice equals its persisted copy only if the new value is the     *)
(* value that item loads as (an append and then a confirmed clear, both    *)
(* failing, on a first run) and differs from it otherwise.  A step that is *)
(* neither an update of a slice nor a reload changes neither the slice nor *)
(* its persisted item; a reload leaves the items and makes the four slices *)
(* equal to their persisted copies.                                        *)
(***************************************************************************)
\* The slice that the handler op updates is, in the state the step leads
\* to, the value the handler's updater gives from the slice as it was.
TookNewValue(op) ==
  CASE op = "updateRadar" ->
         \E in \in AppRadarInputs :
           radarData' = updateField(radarData, in[1], RInt(in[2]))
    [] op = "updateGoal" ->
         \E in \in AppGoalInputs :
           goalData' = updateField(goalData, in[1], Str(in[2]))
    [] op = "updateCrisis" ->
         \E in \in AppCrisisInputs :
           crisisData' = updateField(crisisData, in[1], Str(in[2]))
    [] op = "handleAddLog" ->
         \E now \in Clock : plusOneLogs' = addPlusOneLog(plusOneLogs, newLog, now)
    [] op = "clearLogs" -> plusOneLogs' = Arr(<<>>)
    [] OTHER -> FALSE

\* After the step the slice of key equals its persisted copy only if it is
\* the value that the item held before the step loads as.
EqualOnlyIfLoaded(key) ==
  ConsistentAfter(key) => SliceAfter(key) = useLocalStorage(localStorage, key)

C11_ConsistentWhenWritten ==
  [][\A k \in StorageKeys :
       LET updated == KeyOf(lastOp'.op) = k /\ lastOp'.wrote # "none"
       IN  /\ (updated /\ lastOp'.wrote = "ok")
                => /\ localStorage'[k] = Item(StringOf(stringify(SliceAfter(k))))
                   /\ ConsistentAfter(k)
           /\ (updated /\ lastOp'.wrote = "failed")
                => /\ localStorage'[k] = localStorage[k]
                   /\ TookNewValue(lastOp'.op)
                   /\ EqualOnlyIfLoaded(k)
           /\ (~updated /\ lastOp'.op # "reload")
                => /\ SliceAfter(k) = Slice(k)
                   /\ localStorage'[k] = localStorage[k]
           /\ lastOp'.op = "reload"
                => /\ ConsistentAfter(k)
                   /\ localStorage'[k] = localStorage[k]]_vars

\* A goal title holding a quote and a tab was written and loads back as it
\* is in memory, while the radar, whose write failed, differs from its
\* copy.
C11_Witness ==
  /\ lastOp = Op("updateGoal", "ok")
  /\ Field(goalData, title) = Str(<<97, 34, 9>>)
  /\ Consistent("pilot_goal")
  /\ ~Consistent("pilot_radar")

(***************************************************************************)
(* C12.  A write that fails during an update is caught: the handler runs   *)
(* to its end (the slice in memory holds the new value, and after an       *)
(* append the input is emptied), every storage key keeps the item it had,  *)
(* and nothing writes again until the next update: the handlers that       *)
(* update no slice, and reloads, leave localStorage as it is.  The next    *)
(* update of the slice that is written puts the serialization of the whole *)
(* slice as it then is in memory under its key, and touches no other key.  *)
(***************************************************************************)
C12_FailedWriteIsSwallowed ==
  [][/\ lastOp'.wrote = "failed"
          => /\ localStorage' = localStorage
             /\ lastSaved' = lastSaved
             /\ activeTab' = activeTab
             /\ lastOp'.op = "handleAddLog"
                  => /\ newLog' = <<>>
                     /\ plusOneLogs'.t = "array"
                     /\ Len(plusOneLogs'.v) = LogLength + 1
             /\ lastOp'.op = "clearLogs" => plusOneLogs' = Arr(<<>>)
             /\ lastOp'.op = "updateRadar"
                  => \E in \in AppRadarInputs :
                       radarData' = updateField(radarData, in[1], RInt(in[2]))
             /\ lastOp'.op = "updateGoal"
                  => \E in \in AppGoalInputs :
                       goalData' = updateField(goalData, in[1], Str(in[2]))
             /\ lastOp'.op = "updateCrisis"
                  => \E in \in AppCrisisInputs :
                       crisisData' = updateField(crisisData, in[1], Str(in[2]))
     /\ lastOp'.wrote = "none" => localStorage' = localStorage
     /\ lastOp'.wrote = "ok"
          => \E k \in StorageKeys :
               /\ k = KeyOf(lastOp'.op)
               /\ localStorage' =
                    [localStorage EXCEPT
                       ![k] = Item(StringOf(stringify(SliceAfter(k))))]]_vars

\* The goal's title was written, the update of its anchor failed: the key
\* still holds the serialization of the value written, the goal in memory
\* is ahead of it.
C12_Witness ==
  /\ lastOp = Op("updateGoal", "failed")
  /\ lastSaved["pilot_goal"].saved
  /\ localStorage["pilot_goal"]
       = Item(StringOf(stringify(lastSaved["pilot_goal"].value)))
  /\ goalData # lastSaved["pilot_goal"].value
  /\ Field(goalData, title) = Str(<<97, 34, 9>>)
  /\ Field(goalData, carb_recovery) = Str(<<92>>)

(***************************************************************************)
(* C13.  Each update touches only its own slice and field.  updateRadar,   *)
(* updateGoal and updateCrisis set field k of their slice to v and leave   *)
(* the other fields of the slice, the three other slices and the three     *)
(* other storage keys as they were; an append and a clear change only the  *)
(* logs slice and its key; a change of the active tab changes no slice and *)
(* no storage key.  The active tab is never persisted: localStorage holds  *)
(* the four slice keys only, every item written is the serialization of    *)
(* its slice and of nothing else, and the tab is 'radar' at the start of   *)
(* every session, whatever it was before.                                  *)
(***************************************************************************)
\* next is an object with the property key set to val and the properties
\* that prev gives a spread, untouched, and no other.
OnlyFieldSet(prev, next, key, val) ==
  /\ next.t = "object"
  /\ Get(next, key) = val
  /\ \A i \in 1..Len(SpreadObject(prev)) :
       SpreadObject(prev)[i].k # key
         => Get(next, SpreadObject(prev)[i].k) = SpreadObject(prev)[i].v
  /\ \A i \in 1..Len(next.v) :
       next.v[i].k = key \/ HasProperty(SpreadObject(prev), next.v[i].k)

\* Every slice but the one of key, and every storage key but key, are
\* unchanged.
OthersUnchanged(key) ==
  /\ \A k \in StorageKeys \ {key} :
       /\ SliceAfter(k) = Slice(k)
       /\ localStorage'[k] = localStorage[k]
  /\ DOMAIN localStorage' = StorageKeys

C13_UpdatesAreLocal ==
  /\ activeTab = "radar"
  /\ [][/\ lastOp'.op = "updateRadar"
            => /\ \E in \in AppRadarInputs :
                    OnlyFieldSet(radarData, radarData', in[1], RInt(in[2]))
               /\ OthersUnchanged("pilot_radar")
        /\ lastOp'.op = "updateGoal"
            => /\ \E in \in AppGoalInputs :
                    OnlyFieldSet(goalData, goalData', in[1], Str(in[2]))
               /\ OthersUnchanged("pilot_goal")
        /\ lastOp'.op = "updateCrisis"
            => /\ \E in \in AppCrisisInputs :
                    OnlyFieldSet(crisisData, crisisData', in[1], Str(in[2]))
               /\ OthersUnchanged("pilot_crisis")
        /\ lastOp'.op \in {"handleAddLog", "clearLogs"}
            => OthersUnchanged("pilot_logs")
        /\ lastOp'.op = "setActiveTab"
            => /\ \A k \in StorageKeys : SliceAfter(k) = Slice(k)
               /\ localStorage' = localStorage
        /\ lastOp'.op = "reload"
            => /\ activeTab' = "radar"
               /\ localStorage' = localStorage
        /\ lastOp'.wrote = "ok"
            => localStorage'[KeyOf(lastOp'.op)]
                 = Item(StringOf(stringify(SliceAfter(KeyOf(lastOp'.op)))))]_vars

\* The goal's anchor was set after its title, the radar and the crisis
\* card: the title and the two other slices are as they were set.
C13_Witness ==
  /\ lastOp.op = "updateGoal"
  /\ Field(goalData, carb_recovery) = Str(<<92>>)
  /\ Field(goalData, title) = Str(<<97, 34, 9>>)
  /\ Field(goalData, carb_cognitive) = Field(DefaultGoal, carb_cognitive)
  /\ Field(radarData, fog) = RInt(0)
  /\ Field(crisisData, booster) = Str(<<97>>)

(***************************************************************************)
(* C14.  Whenever x > 7 && y > 7 holds, and so whenever the Mission page   *)
(* shows the authorization banner, the log holds at least 3 entries and at *)
(* least one habit anchor counts as configured (its length is above 2).    *)
(* Hence no banner on an empty log; right after a confirmed clear the log  *)
(* is empty and the signal is off whatever the radar and the goal are, and *)
(* it stays off while the log holds fewer than 3 entries.                  *)
(***************************************************************************)
\* signal is x > 7 && y > 7, shown whether the banner is on the page.
SignalNeeds(signal, shown) ==
  /\ signal
       => /\ plusOneLogs.t = "array"
          /\ Len(plusOneLogs.v) >= 3
          /\ IntOf(carbCount(goalData)) >= 1
  /\ shown => signal
  /\ LogLength = 0 => ~shown
  /\ lastOp = Op("clearLogs", "ok")
       => /\ plusOneLogs = Arr(<<>>)
          /\ ~signal
  /\ LogLength < 3 => ~signal

C14_SignalNeedsLogsAndAnchor ==
  SignalNeeds(authorization(Matrix), AuthorizationShown)

\* The banner is shown on a log of exactly 3 entries: mastery above 7,
\* title and three anchors set.
C14_Witness ==
  /\ AuthorizationShown
  /\ LogLength = 3
  /\ carbCount(goalData) = RInt(3)

====
